---------------------------- MODULE Spec2Model ----------------------------
(***************************************************************************)
(* tslox: a tree-walking Lox interpreter (scanner, parser, resolver,       *)
(* interpreter, command-line driver).                                      *)
(*                                                                         *)
(* Specification Spec models the driver of src/src/Lox.ts (main, runFile,  *)
(* runPrompt, run, report, runtimeError) around the Resolver of            *)
(* src/src/Resolver.ts and the Interpreter of src/src/Interpreter.ts.      *)
(* The interpreter is a small-step machine: `ctl` is what the evaluator    *)
(* is doing, `kont` is the JavaScript call stack of the visit methods      *)
(* (innermost frame first), and a thrown Return or RuntimeError unwinds    *)
(* `kont` one frame per step.                                              *)
(***************************************************************************)
EXTENDS Integers, Sequences, FiniteSets, TLC

(***************************************************************************)
(* Bounds of the model.                                                    *)
(***************************************************************************)
\* number of lines the console supplies before end of input
MaxLines == 2
\* performance.now() / 1000 is one of 0..MaxClock
MaxClock == 1

(***************************************************************************)
(* AST: src/src/Expr.ts and src/src/Stmt.ts.  Tokens are kept as their     *)
(* lexeme (names) or their type (operators).                               *)
(***************************************************************************)
Literal(value) == [t |-> "Literal", value |-> value]
Variable(name) == [t |-> "Variable", name |-> name]
Assign(name, value) == [t |-> "Assign", name |-> name, value |-> value]
Grouping(expr) == [t |-> "Grouping", expr |-> expr]
Binary(left, operator, right) ==
    [t |-> "Binary", left |-> left, operator |-> operator, right |-> right]
Logical(left, operator, right) ==
    [t |-> "Logical", left |-> left, operator |-> operator, right |-> right]
Unary(operator, expr) == [t |-> "Unary", operator |-> operator, expr |-> expr]
Call(callee, args) == [t |-> "Call", callee |-> callee, args |-> args]
Get(object, name) == [t |-> "Get", object |-> object, name |-> name]
Set(object, name, value) ==
    [t |-> "Set", object |-> object, name |-> name, value |-> value]
This == [t |-> "This"]

\* an absent optional child (initializer, elseBranch)
Absent == [t |-> "Absent"]

ExpressionStmt(expr) == [t |-> "Expression", expr |-> expr]
PrintStmt(expr) == [t |-> "Print", expr |-> expr]
VarStmt(name, initializer) == [t |-> "Var", name |-> name, initializer |-> initializer]
BlockStmt(statements) == [t |-> "Block", statements |-> statements]
IfStmt(condition, thenBranch, elseBranch) ==
    [t |-> "If", condition |-> condition, thenBranch |-> thenBranch,
     elseBranch |-> elseBranch]
WhileStmt(condition, body) == [t |-> "While", condition |-> condition, body |-> body]
FunctionStmt(name, params, body) ==
    [t |-> "Function", name |-> name, params |-> params, body |-> body]
ReturnStmt(value) == [t |-> "Return", value |-> value]
ClassStmt(name, methods) == [t |-> "Class", name |-> name, methods |-> methods]

(***************************************************************************)
(* Runtime values.  null, booleans, numbers and strings are tagged so that *)
(* === compares them without mixing types; a Function object is a          *)
(* reference into the heap `funcs`, so === on functions is identity.       *)
(***************************************************************************)
Nil == [k |-> "nil"]
Bool(b) == [k |-> "bool", v |-> b]
Num(n) == [k |-> "num", v |-> n]
Str(s) == [k |-> "str", v |-> s]
Fn(id) == [k |-> "fn", id |-> id]
Clock == [k |-> "native"]

isTruthy(x) ==
    IF x.k = "bool" THEN x.v
    ELSE IF x.k = "nil" THEN FALSE
    ELSE TRUE

Digit(d) ==
    CASE d = 0 -> "0" [] d = 1 -> "1" [] d = 2 -> "2" [] d = 3 -> "3"
      [] d = 4 -> "4" [] d = 5 -> "5" [] d = 6 -> "6" [] d = 7 -> "7"
      [] d = 8 -> "8" [] d = 9 -> "9"

RECURSIVE Decimal(_)
Decimal(n) == IF n < 10 THEN Digit(n) ELSE Decimal(n \div 10) \o Digit(n % 10)

\* `${x}` of an integral number
NumberToString(n) == IF n < 0 THEN "-" \o Decimal(0 - n) ELSE Decimal(n)

(***************************************************************************)
(* Environment: src/src/Environment.ts.  The heap `envs` is a sequence of  *)
(* [enclosing, values]; an Environment object is its index, enclosing = 0  *)
(* is "no enclosing environment", values is a Map keyed by name.           *)
(***************************************************************************)
NoEnv == 0
GlobalsId == 1

NewEnvironment(enclosing) == [enclosing |-> enclosing, values |-> << >>]

MapSet(m, name, value) ==
    [n \in (DOMAIN m) \cup {name} |-> IF n = name THEN value ELSE m[n]]

EnvDefine(heap, env, name, value) ==
    [heap EXCEPT ![env].values = MapSet(@, name, value)]

RECURSIVE EnvHolder(_, _, _)
\* the environment of the chain from env that holds name, NoEnv when none does:
\* the recursion of Environment.get and Environment.assign
EnvHolder(heap, env, name) ==
    IF name \in DOMAIN heap[env].values THEN env
    ELSE IF heap[env].enclosing # NoEnv THEN EnvHolder(heap, heap[env].enclosing, name)
    ELSE NoEnv

UndefinedVariable(name) == "Undefined variable '" \o name \o "'."

\* Environment.get: [ok, value] or [ok = FALSE, message] for the RuntimeError
EnvGet(heap, env, name) ==
    LET h == EnvHolder(heap, env, name)
    IN  IF h # NoEnv THEN [ok |-> TRUE, value |-> heap[h].values[name]]
        ELSE [ok |-> FALSE, message |-> UndefinedVariable(name)]

\* an Environment.assign that sets the name in the environment it is called on
EnvAssignHere(heap, env, name, value) ==
    [ok |-> TRUE, heap |-> EnvDefine(heap, env, name, value)]

\* Environment.assign: [ok, heap] or [ok = FALSE, message] for the RuntimeError
EnvAssign(heap, env, name, value) ==
    LET h == EnvHolder(heap, env, name)
    IN  IF h # NoEnv
        THEN [ok |-> TRUE, heap |-> [heap EXCEPT ![h].values = MapSet(@, name, value)]]
        ELSE [ok |-> FALSE, message |-> UndefinedVariable(name)]

(***************************************************************************)
(* Resolver: src/src/Resolver.ts.  The resolver state is a record           *)
(*   scopes          the stack #scopes, innermost last, each a Map          *)
(*                   name -> boolean (false: declared, true: defined)       *)
(*   currentFunction, currentClass                                          *)
(*   errors          the messages passed to Lox.error, in order             *)
(*   resolved        the calls interpreter.resolve(expr, depth), in order,  *)
(*                   as <<lexeme, depth>>                                    *)
(***************************************************************************)
NewResolver ==
    [scopes |-> << >>, currentFunction |-> "NONE", currentClass |-> "NONE",
     errors |-> << >>, resolved |-> << >>]

\* Lox.error called from the resolver
ResolverError(st, message) == [st EXCEPT !.errors = Append(@, message)]

\* a #declare that looks for the name in every scope
ResolverDeclareAnyScope(st, name) ==
    LET n == Len(st.scopes)
    IN  IF n = 0 THEN st
        ELSE LET st1 == IF \E i \in 1..n : name \in DOMAIN st.scopes[i]
                        THEN ResolverError(st, "Already a variable with this name in this scope.")
                        ELSE st
             IN  [st1 EXCEPT !.scopes[n] = MapSet(@, name, FALSE)]

ResolverDeclare(st, name) ==
    LET n == Len(st.scopes)
    IN  IF n = 0 THEN st
        ELSE LET st1 == IF name \in DOMAIN st.scopes[n]
                        THEN ResolverError(st, "Already a variable with this name in this scope.")
                        ELSE st
             IN  [st1 EXCEPT !.scopes[n] = MapSet(@, name, FALSE)]

ResolverDefine(st, name) ==
    LET n == Len(st.scopes)
    IN  IF n = 0 THEN st ELSE [st EXCEPT !.scopes[n] = MapSet(@, name, TRUE)]

\* #scopes.findLastIndex(scope => scope.has(name)), 1-based, 0 when none
FindLastIndex(scopes, name) ==
    LET S == {i \in 1..Len(scopes) : name \in DOMAIN scopes[i]}
    IN  IF S = {} THEN 0 ELSE CHOOSE i \in S : \A j \in S : j <= i

ResolveLocal(st, name) ==
    LET i == FindLastIndex(st.scopes, name)
    IN  IF i # 0
        THEN [st EXCEPT !.resolved = Append(@, <<name, Len(st.scopes) - i>>)]
        ELSE st

ScopePush(st) == [st EXCEPT !.scopes = Append(@, << >>)]
ScopePop(st) == [st EXCEPT !.scopes = SubSeq(@, 1, Len(@) - 1)]

\* Always true.  TLC hands an operator its arguments unevaluated; comparing the
\* resolver state with itself has TLC evaluate it before a visit descends, so
\* that pending states do not pile up on TLC's evaluation stack.
Evaluated(st) == st.errors = st.errors

RECURSIVE ResolveNode(_, _)
RECURSIVE ResolveAll(_, _)
RECURSIVE ResolveParams(_, _)
RECURSIVE ResolveMethods(_, _)

\* Resolver.resolve(...nodes)
ResolveAll(st, nodes) ==
    IF nodes = << >> \/ ~Evaluated(st) THEN st
    ELSE ResolveAll(ResolveNode(st, Head(nodes)), Tail(nodes))

ResolveParams(st, params) ==
    IF params = << >> THEN st
    ELSE ResolveParams(ResolverDefine(ResolverDeclare(st, Head(params)), Head(params)),
                       Tail(params))

\* a #resolveFunction that does not put currentFunction back
ResolveFunctionNoRestore(st, stmt, type) ==
    LET st1 == ScopePush([st EXCEPT !.currentFunction = type])
    IN  ScopePop(ResolveAll(ResolveParams(st1, stmt.params), stmt.body))

ResolveFunction(st, stmt, type) ==
    LET enclosingFunction == st.currentFunction
        st1 == ScopePush([st EXCEPT !.currentFunction = type])
        st2 == ResolveAll(ResolveParams(st1, stmt.params), stmt.body)
    IN  [ScopePop(st2) EXCEPT !.currentFunction = enclosingFunction]

ResolveMethods(st, methods) ==
    IF methods = << >> THEN st
    ELSE LET method == Head(methods)
             declaration == IF method.name = "init" THEN "INITIALIZER" ELSE "METHOD"
         IN  ResolveMethods(ResolveFunction(st, method, declaration), Tail(methods))

\* a resolver that lets `return` pass at top level
VisitReturnStmtResolverNoTopLevel(st, stmt) ==
    LET st2 == IF /\ st.currentFunction = "INITIALIZER"
                  /\ stmt.value.t = "Literal"
                  /\ stmt.value.value # Nil
               THEN ResolverError(st, "Can't return a value from an initializer.")
               ELSE st
    IN  ResolveNode(st2, stmt.value)

VisitReturnStmtResolver(st, stmt) ==
    LET st1 == IF st.currentFunction = "NONE"
               THEN ResolverError(st, "Can't return from top-level code.")
               ELSE st
        st2 == IF /\ st1.currentFunction = "INITIALIZER"
                  /\ stmt.value.t = "Literal"
                  /\ stmt.value.value # Nil
               THEN ResolverError(st1, "Can't return a value from an initializer.")
               ELSE st1
    IN  ResolveNode(st2, stmt.value)

\* a visitVarStmt that defines the name before it resolves the initializer
VisitVarStmtResolverDefineFirst(st, stmt) ==
    LET st1 == ResolverDefine(ResolverDeclare(st, stmt.name), stmt.name)
    IN  IF stmt.initializer # Absent THEN ResolveNode(st1, stmt.initializer) ELSE st1

VisitVarStmtResolver(st, stmt) ==
    LET st1 == ResolverDeclare(st, stmt.name)
        st2 == IF stmt.initializer # Absent THEN ResolveNode(st1, stmt.initializer) ELSE st1
    IN  ResolverDefine(st2, stmt.name)

VisitClassStmtResolver(st, stmt) ==
    LET enclosingClass == st.currentClass
        st1 == ResolverDefine(ResolverDeclare([st EXCEPT !.currentClass = "CLASS"],
                                              stmt.name), stmt.name)
        st2 == ScopePush(st1)
        st3 == [st2 EXCEPT !.scopes[Len(st2.scopes)] = MapSet(@, "this", TRUE)]
        st4 == ScopePop(ResolveMethods(st3, stmt.methods))
    IN  [st4 EXCEPT !.currentClass = enclosingClass]

VisitVariableExprResolver(st, expr) ==
    LET n == Len(st.scopes)
        st1 == IF /\ n > 0
                  /\ expr.name \in DOMAIN st.scopes[n]
                  /\ st.scopes[n][expr.name] = FALSE
               THEN ResolverError(st, "Can't read local variable in its own initializer.")
               ELSE st
    IN  ResolveLocal(st1, expr.name)

VisitThisExprResolver(st, expr) ==
    IF st.currentClass = "NONE"
    THEN ResolverError(st, "Can't use 'this' outside of a class.")
    ELSE ResolveLocal(st, "this")

\* node.accept(this)
ResolveNode(st, node) ==
    CASE ~Evaluated(st) -> st
      [] node.t = "Block" -> ScopePop(ResolveAll(ScopePush(st), node.statements))
      [] node.t = "Class" -> VisitClassStmtResolver(st, node)
      [] node.t = "Expression" -> ResolveNode(st, node.expr)
      [] node.t = "Function" ->
            ResolveFunction(ResolverDefine(ResolverDeclare(st, node.name), node.name),
                            node, "FUNCTION")
      [] node.t = "If" ->
            LET st1 == ResolveNode(ResolveNode(st, node.condition), node.thenBranch)
            IN  IF node.elseBranch # Absent THEN ResolveNode(st1, node.elseBranch) ELSE st1
      [] node.t = "Print" -> ResolveNode(st, node.expr)
      [] node.t = "Return" -> VisitReturnStmtResolver(st, node)
      [] node.t = "Var" -> VisitVarStmtResolver(st, node)
      [] node.t = "While" -> ResolveNode(ResolveNode(st, node.condition), node.body)
      [] node.t = "Assign" -> ResolveLocal(ResolveNode(st, node.value), node.name)
      [] node.t = "Binary" -> ResolveNode(ResolveNode(st, node.left), node.right)
      [] node.t = "Call" -> ResolveAll(ResolveNode(st, node.callee), node.args)
      [] node.t = "Get" -> ResolveNode(st, node.object)
      [] node.t = "Grouping" -> ResolveNode(st, node.expr)
      [] node.t = "Literal" -> st
      [] node.t = "Logical" -> ResolveNode(ResolveNode(st, node.left), node.right)
      [] node.t = "Set" -> ResolveNode(ResolveNode(st, node.value), node.object)
      [] node.t = "This" -> VisitThisExprResolver(st, node)
      [] node.t = "Unary" -> ResolveNode(st, node.expr)
      [] node.t = "Variable" -> VisitVariableExprResolver(st, node)

(***************************************************************************)
(* Interpreter helpers: src/src/Interpreter.ts.                            *)
(***************************************************************************)
\* the two things the interpreter throws
RuntimeError(message) == [k |-> "RuntimeError", message |-> message]
Return(value) == [k |-> "Return", value |-> value]

\* left === right
StrictEquals(a, b) ==
    /\ a.k = b.k
    /\ CASE a.k \in {"fn", "class", "instance"} -> a.id = b.id
         [] a.k \in {"bool", "num", "str"} -> a.v = b.v
         [] OTHER -> TRUE

OperandMustBeNumber == "Operand must be a number."

\* checkNumberOperand(operator, left); checkNumberOperand(operator, right)
BothNumbers(left, right) == left.k = "num" /\ right.k = "num"

\* the switch of visitBinaryExpr: [ok, value], or [ok = FALSE, message] for
\* the RuntimeError.  SLASH is left out: its results are not integral.
BinaryOp(operator, left, right) ==
    CASE operator = "BANG_EQUAL" -> [ok |-> TRUE, value |-> Bool(~StrictEquals(left, right))]
      [] operator = "EQUAL_EQUAL" -> [ok |-> TRUE, value |-> Bool(StrictEquals(left, right))]
      [] operator \in {"GREATER", "GREATER_EQUAL", "LESS", "LESS_EQUAL", "MINUS", "STAR"} ->
            IF ~BothNumbers(left, right)
            THEN [ok |-> FALSE, message |-> OperandMustBeNumber]
            ELSE [ok |-> TRUE, value |->
                    CASE operator = "GREATER" -> Bool(left.v > right.v)
                      [] operator = "GREATER_EQUAL" -> Bool(left.v >= right.v)
                      [] operator = "LESS" -> Bool(left.v < right.v)
                      [] operator = "LESS_EQUAL" -> Bool(left.v <= right.v)
                      [] operator = "MINUS" -> Num(left.v - right.v)
                      [] operator = "STAR" -> Num(left.v * right.v)]
      [] operator = "PLUS" ->
            IF left.k = "num" /\ right.k = "num"
            THEN [ok |-> TRUE, value |-> Num(left.v + right.v)]
            ELSE IF left.k = "str" /\ right.k = "str"
            THEN [ok |-> TRUE, value |-> Str(left.v \o right.v)]
            ELSE [ok |-> FALSE, message |-> "Operands must be two numbers or two strings."]
      [] OTHER -> [ok |-> TRUE, value |-> Nil]

\* the switch of visitUnaryExpr
UnaryOp(operator, right) ==
    CASE operator = "BANG" -> [ok |-> TRUE, value |-> Bool(~isTruthy(right))]
      [] operator = "MINUS" ->
            IF right.k = "num" THEN [ok |-> TRUE, value |-> Num(0 - right.v)]
            ELSE [ok |-> FALSE, message |-> OperandMustBeNumber]
      [] OTHER -> [ok |-> TRUE, value |-> Nil]

(***************************************************************************)
(* Class and Instance: src/src/Class.ts.  A Class object is an index in    *)
(* the heap of [name, superclass, methods], an Instance object an index in *)
(* the heap of [class, fields]; methods maps names to Function objects,    *)
(* fields names to values.                                                 *)
(***************************************************************************)
\* undefined: no superclass, no method of that name
Undefined == 0

Klass(id) == [k |-> "class", id |-> id]
Instance(id) == [k |-> "instance", id |-> id]

\* new Class(name, methods, superclass)
NewClass(name, methods, superclass) ==
    [name |-> name, superclass |-> superclass, methods |-> methods]

\* new Instance(c)
NewInstance(c) == [class |-> c, fields |-> << >>]

\* a findMethod that asks the superclass first
RECURSIVE findMethodSuperFirst(_, _, _)
findMethodSuperFirst(cls, c, name) ==
    LET inherited == IF cls[c].superclass # Undefined
                     THEN findMethodSuperFirst(cls, cls[c].superclass, name)
                     ELSE Undefined
    IN  IF inherited # Undefined THEN inherited
        ELSE IF name \in DOMAIN cls[c].methods THEN cls[c].methods[name]
        ELSE Undefined

RECURSIVE findMethod(_, _, _)
\* Class.findMethod: the Function object, or Undefined
findMethod(cls, c, name) ==
    IF name \in DOMAIN cls[c].methods THEN cls[c].methods[name]
    ELSE IF cls[c].superclass # Undefined THEN findMethod(cls, cls[c].superclass, name)
    ELSE Undefined

\* Class.arity
ClassArity(cls, fns, c) ==
    LET init == findMethod(cls, c, "init")
    IN  IF init # Undefined THEN Len(fns[init].declaration.params) ELSE 0

\* Function.bind(instance): the heaps with the new environment and the new
\* Function object, which is the last of funcs
Bind(heap, fns, method, instance) ==
    LET env == Len(heap) + 1
    IN  [envs |-> EnvDefine(Append(heap, NewEnvironment(fns[method].closure)),
                            env, "this", instance),
         funcs |-> Append(fns, [declaration |-> fns[method].declaration,
                                closure |-> env])]

UndefinedProperty(name) == "Undefined property '" \o name \o "'."

\* an Instance.get that looks for a method before it looks for a field
InstanceGetMethodFirst(insts, cls, heap, fns, i, name) ==
    LET method == findMethod(cls, insts[i].class, name)
    IN  IF method # Undefined
        THEN LET b == Bind(heap, fns, method, Instance(i))
             IN  [ok |-> TRUE, value |-> Fn(Len(b.funcs)), envs |-> b.envs,
                  funcs |-> b.funcs]
        ELSE IF name \in DOMAIN insts[i].fields
        THEN [ok |-> TRUE, value |-> insts[i].fields[name], envs |-> heap,
              funcs |-> fns]
        ELSE [ok |-> FALSE, message |-> UndefinedProperty(name)]

\* Instance.get: [ok, value, envs, funcs], or [ok = FALSE, message] for the
\* RuntimeError
InstanceGet(insts, cls, heap, fns, i, name) ==
    IF name \in DOMAIN insts[i].fields
    THEN [ok |-> TRUE, value |-> insts[i].fields[name], envs |-> heap,
          funcs |-> fns]
    ELSE LET method == findMethod(cls, insts[i].class, name)
         IN  IF method # Undefined
             THEN LET b == Bind(heap, fns, method, Instance(i))
                  IN  [ok |-> TRUE, value |-> Fn(Len(b.funcs)), envs |-> b.envs,
                       funcs |-> b.funcs]
             ELSE [ok |-> FALSE, message |-> UndefinedProperty(name)]

\* Instance.set
InstanceSet(insts, i, name, value) ==
    [insts EXCEPT ![i].fields = MapSet(@, name, value)]

\* stringify(x); fns, cls and insts are the heaps of Function, Class and
\* Instance objects (for their toString)
stringify(x, fns, cls, insts) ==
    CASE x.k = "nil" -> "nil"
      [] x.k = "bool" -> IF x.v THEN "true" ELSE "false"
      [] x.k = "num" -> NumberToString(x.v)
      [] x.k = "str" -> x.v
      [] x.k = "fn" -> "<fn " \o fns[x.id].declaration.name \o ">"
      [] x.k = "native" -> "<native fn>"
      [] x.k = "class" -> cls[x.id].name
      [] x.k = "instance" -> cls[insts[x.id].class].name \o " instance"

\* callee instanceof Callable
IsCallable(x) == x.k \in {"fn", "native", "class"}

\* fn.arity: Function.arity, Class.arity, and the arity of the native clock
Arity(x, fns, cls) ==
    IF x.k = "fn" THEN Len(fns[x.id].declaration.params)
    ELSE IF x.k = "class" THEN ClassArity(cls, fns, x.id)
    ELSE 0

ExpectedArguments(arity, got) ==
    "Expected " \o NumberToString(arity) \o " arguments but got " \o NumberToString(got) \o "."

RECURSIVE DefineParams(_, _, _, _)
\* the loop of Function.call that defines each parameter in the new environment
DefineParams(heap, env, params, args) ==
    IF params = << >> THEN heap
    ELSE DefineParams(EnvDefine(heap, env, Head(params), Head(args)), env,
                      Tail(params), Tail(args))

(***************************************************************************)
(* Scanner: src/src/Function.ts, lines 42-310 (Token, TokenType, Scanner). *)
(* A source is a sequence of characters (one-character strings).  The      *)
(* scanner is the record                                                   *)
(*   source, tokens, start, current, line   the fields of Scanner; start   *)
(*                   and current are the 0-based offsets of the code       *)
(*   errors          the calls of Lox.error made so far: [line, where,     *)
(*                   message]                                              *)
(***************************************************************************)
Token(type, lexeme, literal, line) ==
    [type |-> type, lexeme |-> lexeme, literal |-> literal, line |-> line]

TokenType ==
    {"LEFT_PAREN", "RIGHT_PAREN", "LEFT_BRACE", "RIGHT_BRACE", "COMMA", "DOT",
     "MINUS", "PLUS", "SEMICOLON", "SLASH", "STAR",
     "BANG", "BANG_EQUAL", "EQUAL", "EQUAL_EQUAL", "GREATER", "GREATER_EQUAL",
     "LESS", "LESS_EQUAL",
     "IDENTIFIER", "STRING", "NUMBER",
     "AND", "CLASS", "ELSE", "FALSE", "FUN", "FOR", "IF", "NIL", "OR", "PRINT",
     "RETURN", "SUPER", "THIS", "TRUE", "VAR", "WHILE",
     "EOF"}

\* static keywords
keywords ==
    [w \in {"and", "class", "else", "false", "for", "fun", "if", "nil", "or",
            "print", "return", "super", "this", "true", "var", "while"} |->
        CASE w = "and" -> "AND" [] w = "class" -> "CLASS" [] w = "else" -> "ELSE"
          [] w = "false" -> "FALSE" [] w = "for" -> "FOR" [] w = "fun" -> "FUN"
          [] w = "if" -> "IF" [] w = "nil" -> "NIL" [] w = "or" -> "OR"
          [] w = "print" -> "PRINT" [] w = "return" -> "RETURN"
          [] w = "super" -> "SUPER" [] w = "this" -> "THIS" [] w = "true" -> "TRUE"
          [] w = "var" -> "VAR" [] w = "while" -> "WHILE"]

\* keywords is an object literal: a property it does not have itself is looked
\* up in Object.prototype, whose properties are these
ObjectPrototype ==
    {"constructor", "hasOwnProperty", "isPrototypeOf", "propertyIsEnumerable",
     "toLocaleString", "toString", "valueOf", "__proto__", "__defineGetter__",
     "__defineSetter__", "__lookupGetter__", "__lookupSetter__"}

\* Scanner.keywords[text] || TokenType.IDENTIFIER: an inherited property is a
\* function (or, for __proto__, an object), which is truthy and becomes the
\* token's type
KeywordOrIdentifier(text) ==
    IF text \in DOMAIN keywords THEN keywords[text]
    ELSE IF text \in ObjectPrototype THEN "Object.prototype." \o text
    ELSE "IDENTIFIER"

\* what #peek and #advance give past the end of the source: "\0"
NUL == "NUL"

Digits == {"0", "1", "2", "3", "4", "5", "6", "7", "8", "9"}
Letters ==
    {"a", "b", "c", "d", "e", "f", "g", "h", "i", "j", "k", "l", "m", "n", "o",
     "p", "q", "r", "s", "t", "u", "v", "w", "x", "y", "z",
     "A", "B", "C", "D", "E", "F", "G", "H", "I", "J", "K", "L", "M", "N", "O",
     "P", "Q", "R", "S", "T", "U", "V", "W", "X", "Y", "Z"}

isAlpha(c) == c \in Letters \/ c = "_"
isDigit(c) == c \in Digits
isAlphaNumeric(c) == isAlpha(c) \/ isDigit(c)

RECURSIVE Concat(_)
\* the string made of the characters cs
Concat(cs) == IF cs = << >> THEN "" ELSE Head(cs) \o Concat(Tail(cs))

\* source.substring(from, to), offsets 0-based, as characters
Substring(source, from, to) == SubSeq(source, from + 1, to)

DigitValue(c) ==
    CASE c = "0" -> 0 [] c = "1" -> 1 [] c = "2" -> 2 [] c = "3" -> 3 [] c = "4" -> 4
      [] c = "5" -> 5 [] c = "6" -> 6 [] c = "7" -> 7 [] c = "8" -> 8 [] c = "9" -> 9

RECURSIVE WholeNumber(_, _)
\* the value of the digits cs read after a number whose value so far is n
WholeNumber(n, cs) ==
    IF cs = << >> THEN n ELSE WholeNumber(10 * n + DigitValue(Head(cs)), Tail(cs))

RECURSIVE TrimZeros(_)
TrimZeros(cs) ==
    IF cs # << >> /\ cs[Len(cs)] = "0" THEN TrimZeros(SubSeq(cs, 1, Len(cs) - 1)) ELSE cs

\* Number(text) for the text of a NUMBER lexeme: the number value, with the
\* digits of its fractional part under `frac` when it is not integral
NumberOf(cs) ==
    LET dots == {i \in 1..Len(cs) : cs[i] = "."}
    IN  IF dots = {} THEN Num(WholeNumber(0, cs))
        ELSE LET d == CHOOSE i \in dots : TRUE
                 whole == WholeNumber(0, SubSeq(cs, 1, d - 1))
                 frac == TrimZeros(SubSeq(cs, d + 1, Len(cs)))
             IN  IF frac = << >> THEN Num(whole)
                 ELSE [k |-> "num", v |-> whole, frac |-> Concat(frac)]

NewScanner(source) ==
    [source |-> source, tokens |-> << >>, start |-> 0, current |-> 0, line |-> 1,
     errors |-> << >>]

\* Lox.error(line, message): report(line, "", message)
ErrorAtLine(line, message) == [line |-> line, where |-> "", message |-> message]

ScannerError(sc, message) ==
    [sc EXCEPT !.errors = Append(@, ErrorAtLine(sc.line, message))]

ScannerDone(sc) == sc.current >= Len(sc.source)

\* this.#source[i] || "\0"
CharAt(sc, i) == IF i < Len(sc.source) THEN sc.source[i + 1] ELSE NUL

ScannerPeek(sc, lookahead) ==
    IF ScannerDone(sc) THEN NUL ELSE CharAt(sc, sc.current + lookahead)

\* #advance: the character it returns is CharAt(sc, sc.current)
ScannerAdvance(sc) == [sc EXCEPT !.current = @ + 1]

\* whether #match(expected) returns true; it has then advanced
ScannerMatches(sc, expected) ==
    ~ScannerDone(sc) /\ sc.source[sc.current + 1] = expected

ScannerAdd(sc, type, literal) ==
    LET text == Concat(Substring(sc.source, sc.start, sc.current))
    IN  [sc EXCEPT !.tokens = Append(@, Token(type, text, literal, sc.line))]

\* #add(this.#match("=") ? two : one)
ScannerAddOneOrTwo(sc, one, two) ==
    IF ScannerMatches(sc, "=") THEN ScannerAdd(ScannerAdvance(sc), two, Nil)
    ELSE ScannerAdd(sc, one, Nil)

RECURSIVE ScannerComment(_)
\* while (this.#peek() !== "\n" && !this.#done) this.#advance()
ScannerComment(sc) ==
    IF ScannerPeek(sc, 0) # "\n" /\ ~ScannerDone(sc)
    THEN ScannerComment(ScannerAdvance(sc))
    ELSE sc

RECURSIVE ScannerStringBodyNoLine(_)
\* a loop of #string that does not count the newlines of the string
ScannerStringBodyNoLine(sc) ==
    IF ScannerPeek(sc, 0) # "\"" /\ ~ScannerDone(sc)
    THEN ScannerStringBodyNoLine(ScannerAdvance(sc))
    ELSE sc

RECURSIVE ScannerStringBody(_)
\* the loop of #string
ScannerStringBody(sc) ==
    IF ScannerPeek(sc, 0) # "\"" /\ ~ScannerDone(sc)
    THEN ScannerStringBody(
            ScannerAdvance(IF ScannerPeek(sc, 0) = "\n"
                           THEN [sc EXCEPT !.line = @ + 1] ELSE sc))
    ELSE sc

ScannerString(sc) ==
    LET sc1 == ScannerStringBody(sc)
    IN  IF ScannerDone(sc1) THEN ScannerError(sc1, "Unterminated string.")
        ELSE LET sc2 == ScannerAdvance(sc1)
                 value == Concat(Substring(sc2.source, sc2.start + 1, sc2.current - 1))
             IN  ScannerAdd(sc2, "STRING", Str(value))

RECURSIVE ScannerDigits(_)
\* while (isDigit(this.#peek())) this.#advance()
ScannerDigits(sc) ==
    IF isDigit(ScannerPeek(sc, 0)) THEN ScannerDigits(ScannerAdvance(sc)) ELSE sc

ScannerNumber(sc) ==
    LET sc1 == ScannerDigits(sc)
        sc2 == IF ScannerPeek(sc1, 0) = "." /\ isDigit(ScannerPeek(sc1, 1))
               THEN ScannerDigits(ScannerAdvance(sc1))
               ELSE sc1
    IN  ScannerAdd(sc2, "NUMBER", NumberOf(Substring(sc2.source, sc2.start, sc2.current)))

RECURSIVE ScannerAlphaNumerics(_)
\* while (isAlphaNumeric(this.#peek())) this.#advance()
ScannerAlphaNumerics(sc) ==
    IF isAlphaNumeric(ScannerPeek(sc, 0)) THEN ScannerAlphaNumerics(ScannerAdvance(sc))
    ELSE sc

ScannerIdentifier(sc) ==
    LET sc1 == ScannerAlphaNumerics(sc)
        text == Concat(Substring(sc1.source, sc1.start, sc1.current))
    IN  ScannerAdd(sc1, KeywordOrIdentifier(text), Nil)

SingleCharacter ==
    [c \in {"(", ")", "{", "}", ",", ".", "-", "+", ";", "*"} |->
        CASE c = "(" -> "LEFT_PAREN" [] c = ")" -> "RIGHT_PAREN"
          [] c = "{" -> "LEFT_BRACE" [] c = "}" -> "RIGHT_BRACE"
          [] c = "," -> "COMMA" [] c = "." -> "DOT" [] c = "-" -> "MINUS"
          [] c = "+" -> "PLUS" [] c = ";" -> "SEMICOLON" [] c = "*" -> "STAR"]

\* a default case that stops the scan at a character it does not know
ScanDefaultAbort(sc, c) ==
    IF isDigit(c) THEN ScannerNumber(sc)
    ELSE IF isAlpha(c) THEN ScannerIdentifier(sc)
    ELSE [ScannerError(sc, "Unexpected character.") EXCEPT !.current = Len(sc.source)]

\* the default case of #scanToken; c is consumed
ScanDefault(sc, c) ==
    IF isDigit(c) THEN ScannerNumber(sc)
    ELSE IF isAlpha(c) THEN ScannerIdentifier(sc)
    ELSE ScannerError(sc, "Unexpected character.")

\* #scanToken
ScanToken(sc) ==
    LET c == CharAt(sc, sc.current)
        sc1 == ScannerAdvance(sc)
    IN  CASE c \in DOMAIN SingleCharacter -> ScannerAdd(sc1, SingleCharacter[c], Nil)
          [] c = "!" -> ScannerAddOneOrTwo(sc1, "BANG", "BANG_EQUAL")
          [] c = "=" -> ScannerAddOneOrTwo(sc1, "EQUAL", "EQUAL_EQUAL")
          [] c = "<" -> ScannerAddOneOrTwo(sc1, "LESS", "LESS_EQUAL")
          [] c = ">" -> ScannerAddOneOrTwo(sc1, "GREATER", "GREATER_EQUAL")
          [] c = "/" -> IF ScannerMatches(sc1, "/")
                        THEN ScannerComment(ScannerAdvance(sc1))
                        ELSE ScannerAdd(sc1, "SLASH", Nil)
          [] c \in {" ", "\r", "\t"} -> sc1
          [] c = "\n" -> [sc1 EXCEPT !.line = @ + 1]
          [] c = "\"" -> ScannerString(sc1)
          [] OTHER -> ScanDefault(sc1, c)

\* a turn of the loop of scanTokens that leaves #start where it was
ScanNextKeepStart(sc) == [ScanToken([sc EXCEPT !.start = sc.current]) EXCEPT !.start = sc.start]

\* one turn of the loop of scanTokens
ScanNext(sc) == ScanToken([sc EXCEPT !.start = sc.current])

\* the end of scanTokens: the EOF token
ScanEOF(sc) == [sc EXCEPT !.tokens = Append(@, Token("EOF", "", Nil, sc.line))]

RECURSIVE scanTokens(_)
\* scanTokens, from the state sc on
scanTokens(sc) == IF ScannerDone(sc) THEN ScanEOF(sc) ELSE scanTokens(ScanNext(sc))

(***************************************************************************)
(* Parser: src/src/Parser.ts.  The parser is the record                    *)
(*   tokens, current   the fields of Parser; current is 0-based            *)
(*   errors            the calls of Lox.error made so far                  *)
(* A parsing method gives [ok, p, node]: the parser after it and the node  *)
(* it returns, or ok = FALSE when it throws ParseError.                    *)
(***************************************************************************)
NewParser(tokens) == [tokens |-> tokens, current |-> 0, errors |-> << >>]

\* Lox.error(token, message)
ErrorAtToken(token, message) ==
    [line |-> token.line,
     where |-> IF token.type = "EOF" THEN " at end" ELSE " at '" \o token.lexeme \o "'",
     message |-> message]

ParserPeek(p) == p.tokens[p.current + 1]
ParserPrevious(p) == p.tokens[p.current]
ParserDone(p) == ParserPeek(p).type = "EOF"
ParserAdvance(p) == IF ~ParserDone(p) THEN [p EXCEPT !.current = @ + 1] ELSE p
ParserCheck(p, type) == ~ParserDone(p) /\ ParserPeek(p).type = type
\* whether #match(...types) returns true; it has then advanced
ParserMatches(p, types) == \E type \in types : ParserCheck(p, type)

\* Lox.error(token, message) without a throw
ParserReport(p, token, message) ==
    [p EXCEPT !.errors = Append(@, ErrorAtToken(token, message))]

Parsed(p, node) == [ok |-> TRUE, p |-> p, node |-> node]
\* throw this.#error(this.#peek(), message)
ParseError(p, message) ==
    [ok |-> FALSE, p |-> ParserReport(p, ParserPeek(p), message), node |-> Absent]
\* a ParseError thrown by a callee passes through
Rethrow(r) == [ok |-> FALSE, p |-> r.p, node |-> Absent]
\* Then(r, F): when the call that gave r returned, go on with F(r); when it
\* threw, the ParseError passes through
Then(r, F(_)) == IF r.ok THEN F(r) ELSE Rethrow(r)

\* #consume: node is the token consumed
ParserConsume(p, type, message) ==
    IF ParserCheck(p, type)
    THEN Parsed(ParserAdvance(p), ParserPeek(p))
    ELSE ParseError(p, message)

SynchronizeAt ==
    {"CLASS", "FUN", "VAR", "FOR", "IF", "WHILE", "PRINT", "RETURN"}

RECURSIVE SynchronizeLoopNoSemicolon(_)
\* a loop of #synchronize that does not stop after a semicolon
SynchronizeLoopNoSemicolon(p) ==
    IF ParserDone(p) THEN p
    ELSE IF ParserPeek(p).type \in SynchronizeAt THEN p
    ELSE SynchronizeLoopNoSemicolon(ParserAdvance(p))

RECURSIVE SynchronizeLoop(_)
\* the while loop of #synchronize
SynchronizeLoop(p) ==
    IF ParserDone(p) THEN p
    ELSE IF ParserPrevious(p).type = "SEMICOLON" THEN p
    ELSE IF ParserPeek(p).type \in SynchronizeAt THEN p
    ELSE SynchronizeLoop(ParserAdvance(p))

Synchronize(p) == SynchronizeLoop(ParserAdvance(p))

\* the operators of the binary levels #or, #and, #equality, #comparison, #term,
\* #factor; the operand of level 6 is #unary
BinaryOperators(level) ==
    CASE level = 1 -> {"OR"}
      [] level = 2 -> {"AND"}
      [] level = 3 -> {"BANG_EQUAL", "EQUAL_EQUAL"}
      [] level = 4 -> {"GREATER", "GREATER_EQUAL", "LESS", "LESS_EQUAL"}
      [] level = 5 -> {"MINUS", "PLUS"}
      [] level = 6 -> {"SLASH", "STAR"}

RECURSIVE ParseDeclaration(_)
RECURSIVE ParseStatement(_)
RECURSIVE ParseBlockLoop(_, _)
RECURSIVE ParseExpression(_)
RECURSIVE ParseAssignment(_)
RECURSIVE ParseBinary(_, _)
RECURSIVE ParseBinaryLoop(_, _, _)
RECURSIVE ParseUnary(_)
RECURSIVE ParseCallLoop(_, _)
RECURSIVE ParseArguments(_, _)

\* #primary
ParsePrimary(p) ==
    LET q == ParserAdvance(p)
    IN  CASE ParserMatches(p, {"FALSE"}) -> Parsed(q, Literal(Bool(FALSE)))
          [] ParserMatches(p, {"TRUE"}) -> Parsed(q, Literal(Bool(TRUE)))
          [] ParserMatches(p, {"NIL"}) -> Parsed(q, Literal(Nil))
          [] ParserMatches(p, {"NUMBER", "STRING"}) ->
                Parsed(q, Literal(ParserPeek(p).literal))
          [] ParserMatches(p, {"THIS"}) -> Parsed(q, This)
          [] ParserMatches(p, {"IDENTIFIER"}) -> Parsed(q, Variable(ParserPeek(p).lexeme))
          [] ParserMatches(p, {"LEFT_PAREN"}) ->
                Then(ParseExpression(q), LAMBDA e :
                Then(ParserConsume(e.p, "RIGHT_PAREN", "Expect ')' after expression."),
                     LAMBDA c : Parsed(c.p, Grouping(e.node))))
          [] OTHER -> ParseError(p, "Expect expression.")

\* the do-while loop of #finishCall, from an argument on
ParseArguments(p, args) ==
    Then(ParseExpression(IF Len(args) >= 255
                         THEN ParserReport(p, ParserPeek(p),
                                           "Can't have more than 255 arguments.")
                         ELSE p),
         LAMBDA e : IF ParserMatches(e.p, {"COMMA"})
                    THEN ParseArguments(ParserAdvance(e.p), Append(args, e.node))
                    ELSE Parsed(e.p, Append(args, e.node)))

\* #finishCall
ParseFinishCall(p, callee) ==
    Then(IF ~ParserCheck(p, "RIGHT_PAREN") THEN ParseArguments(p, << >>)
         ELSE Parsed(p, << >>), LAMBDA a :
    Then(ParserConsume(a.p, "RIGHT_PAREN", "Expect ')' after arguments."),
         LAMBDA c : Parsed(c.p, Call(callee, a.node))))

\* the while (true) loop of #call
ParseCallLoop(p, expr) ==
    IF ParserMatches(p, {"LEFT_PAREN"})
    THEN Then(ParseFinishCall(ParserAdvance(p), expr),
              LAMBDA f : ParseCallLoop(f.p, f.node))
    ELSE IF ParserMatches(p, {"DOT"})
    THEN Then(ParserConsume(ParserAdvance(p), "IDENTIFIER",
                            "Expect property name after '.'."),
              LAMBDA c : ParseCallLoop(c.p, Get(expr, c.node.lexeme)))
    ELSE Parsed(p, expr)

\* #call
ParseCall(p) == Then(ParsePrimary(p), LAMBDA e : ParseCallLoop(e.p, e.node))

\* #unary
ParseUnary(p) ==
    IF ParserMatches(p, {"BANG", "MINUS"})
    THEN Then(ParseUnary(ParserAdvance(p)),
              LAMBDA right : Parsed(right.p, Unary(ParserPeek(p).type, right.node)))
    ELSE ParseCall(p)

\* the operand of a binary level
ParseOperand(p, level) == IF level = 6 THEN ParseUnary(p) ELSE ParseBinary(p, level + 1)

\* the while loop of a binary level
ParseBinaryLoop(p, expr, level) ==
    IF ParserMatches(p, BinaryOperators(level))
    THEN Then(ParseOperand(ParserAdvance(p), level), LAMBDA right :
              ParseBinaryLoop(right.p,
                              IF level <= 2
                              THEN Logical(expr, ParserPeek(p).type, right.node)
                              ELSE Binary(expr, ParserPeek(p).type, right.node),
                              level))
    ELSE Parsed(p, expr)

\* #or (level 1), #and, #equality, #comparison, #term, #factor (level 6)
ParseBinary(p, level) ==
    Then(ParseOperand(p, level), LAMBDA left : ParseBinaryLoop(left.p, left.node, level))

\* the end of an #assignment that throws ParseError on an invalid target
AssignToThrow(expr, equals, value) ==
    IF expr.node.t = "Variable" THEN Parsed(value.p, Assign(expr.node.name, value.node))
    ELSE IF expr.node.t = "Get"
    THEN Parsed(value.p, Set(expr.node.object, expr.node.name, value.node))
    ELSE ParseError([value.p EXCEPT !.current = equals], "Invalid assignment target.")

\* the end of #assignment: expr is the left-hand side, equals the offset of
\* the `=` token, value the right-hand side
AssignTo(expr, equals, value) ==
    IF expr.node.t = "Variable" THEN Parsed(value.p, Assign(expr.node.name, value.node))
    ELSE IF expr.node.t = "Get"
    THEN Parsed(value.p, Set(expr.node.object, expr.node.name, value.node))
    ELSE Parsed(ParserReport(value.p, value.p.tokens[equals + 1],
                             "Invalid assignment target."),
                expr.node)

\* #assignment
ParseAssignment(p) ==
    Then(ParseBinary(p, 1), LAMBDA expr :
         IF ParserMatches(expr.p, {"EQUAL"})
         THEN Then(ParseAssignment(ParserAdvance(expr.p)),
                   LAMBDA value : AssignTo(expr, expr.p.current, value))
         ELSE expr)

\* #expression
ParseExpression(p) == ParseAssignment(p)

\* the statements that are an expression and a semicolon: #printStatement,
\* #expressionStatement and, with the keyword consumed, #returnStatement
ParseExpressionThenSemicolon(p, message) ==
    Then(ParseExpression(p), LAMBDA value :
    Then(ParserConsume(value.p, "SEMICOLON", message),
         LAMBDA c : Parsed(c.p, value.node)))

\* #printStatement
ParsePrintStatement(p) ==
    Then(ParseExpressionThenSemicolon(p, "Expect ';' after value."),
         LAMBDA r : Parsed(r.p, PrintStmt(r.node)))

\* #expressionStatement
ParseExpressionStatement(p) ==
    Then(ParseExpressionThenSemicolon(p, "Expect ';' after expression."),
         LAMBDA r : Parsed(r.p, ExpressionStmt(r.node)))

\* #returnStatement
ParseReturnStatement(p) ==
    IF ParserCheck(p, "SEMICOLON")
    THEN Parsed(ParserAdvance(p), ReturnStmt(Literal(Nil)))
    ELSE Then(ParseExpressionThenSemicolon(p, "Expect ';' after return value."),
              LAMBDA r : Parsed(r.p, ReturnStmt(r.node)))

\* #varDeclaration
ParseVarDeclaration(p) ==
    Then(ParserConsume(p, "IDENTIFIER", "Expect variable name."), LAMBDA name :
    Then(IF ParserMatches(name.p, {"EQUAL"}) THEN ParseExpression(ParserAdvance(name.p))
         ELSE Parsed(name.p, Absent), LAMBDA init :
    Then(ParserConsume(init.p, "SEMICOLON", "Expect ';' after variable declaration."),
         LAMBDA c : Parsed(c.p, VarStmt(name.node.lexeme, init.node)))))

\* statements.push(decl) when decl is defined
PushStatement(statements, decl) ==
    IF decl # Absent THEN Append(statements, decl) ELSE statements

\* #block
ParseBlockLoop(p, statements) ==
    IF ~ParserCheck(p, "RIGHT_BRACE") /\ ~ParserDone(p)
    THEN Then(ParseDeclaration(p),
              LAMBDA decl : ParseBlockLoop(decl.p, PushStatement(statements, decl.node)))
    ELSE Then(ParserConsume(p, "RIGHT_BRACE", "Expect '}' after block."),
              LAMBDA c : Parsed(c.p, statements))

ParseBlock(p) == ParseBlockLoop(p, << >>)

\* #ifStatement
ParseIfStatement(p) ==
    Then(ParserConsume(p, "LEFT_PAREN", "Expect '(' after 'if'."), LAMBDA open :
    Then(ParseExpression(open.p), LAMBDA condition :
    Then(ParserConsume(condition.p, "RIGHT_PAREN", "Expect ')' after if condition."),
         LAMBDA close :
    Then(ParseStatement(close.p), LAMBDA thenBranch :
    Then(IF ParserMatches(thenBranch.p, {"ELSE"})
         THEN ParseStatement(ParserAdvance(thenBranch.p))
         ELSE Parsed(thenBranch.p, Absent), LAMBDA elseBranch :
         Parsed(elseBranch.p,
                IfStmt(condition.node, thenBranch.node, elseBranch.node)))))))

\* #whileStatement
ParseWhileStatement(p) ==
    Then(ParserConsume(p, "LEFT_PAREN", "Expect '(' after 'while'."), LAMBDA open :
    Then(ParseExpression(open.p), LAMBDA condition :
    Then(ParserConsume(condition.p, "RIGHT_PAREN", "Expect ')' after condition."),
         LAMBDA close :
    Then(ParseStatement(close.p), LAMBDA body :
         Parsed(body.p, WhileStmt(condition.node, body.node))))))

\* a desugaring that appends the increment before the body
ForLoopIncrementFirst(initializer, condition, increment, body) ==
    LET body1 == IF increment # Absent
                 THEN BlockStmt(<< ExpressionStmt(increment), body >>)
                 ELSE body
        body2 == WhileStmt(IF condition # Absent THEN condition ELSE Literal(Bool(TRUE)),
                           body1)
    IN  IF initializer # Absent THEN BlockStmt(<< initializer, body2 >>) ELSE body2

\* the end of #forStatement: the loop built from its parts, each Absent when
\* the source leaves it out
ForLoop(initializer, condition, increment, body) ==
    LET body1 == IF increment # Absent
                 THEN BlockStmt(<< body, ExpressionStmt(increment) >>)
                 ELSE body
        body2 == WhileStmt(IF condition # Absent THEN condition ELSE Literal(Bool(TRUE)),
                           body1)
    IN  IF initializer # Absent THEN BlockStmt(<< initializer, body2 >>) ELSE body2

\* #forStatement
ParseForStatement(p) ==
    Then(ParserConsume(p, "LEFT_PAREN", "Expect '(' after 'for'."), LAMBDA open :
    Then(IF ParserMatches(open.p, {"SEMICOLON"}) THEN Parsed(ParserAdvance(open.p), Absent)
         ELSE IF ParserMatches(open.p, {"VAR"})
         THEN ParseVarDeclaration(ParserAdvance(open.p))
         ELSE ParseExpressionStatement(open.p), LAMBDA initializer :
    Then(IF ~ParserCheck(initializer.p, "SEMICOLON") THEN ParseExpression(initializer.p)
         ELSE Parsed(initializer.p, Absent), LAMBDA condition :
    Then(ParserConsume(condition.p, "SEMICOLON", "Expect ';' after loop condition."),
         LAMBDA semi :
    Then(IF ~ParserCheck(semi.p, "RIGHT_PAREN") THEN ParseExpression(semi.p)
         ELSE Parsed(semi.p, Absent), LAMBDA increment :
    Then(ParserConsume(increment.p, "RIGHT_PAREN", "Expect ')' after for clauses."),
         LAMBDA close :
    Then(ParseStatement(close.p), LAMBDA body :
         Parsed(body.p, ForLoop(initializer.node, condition.node, increment.node,
                                body.node)))))))))

\* #statement
ParseStatement(p) ==
    LET q == ParserAdvance(p)
    IN  CASE ParserMatches(p, {"FOR"}) -> ParseForStatement(q)
          [] ParserMatches(p, {"IF"}) -> ParseIfStatement(q)
          [] ParserMatches(p, {"PRINT"}) -> ParsePrintStatement(q)
          [] ParserMatches(p, {"RETURN"}) -> ParseReturnStatement(q)
          [] ParserMatches(p, {"WHILE"}) -> ParseWhileStatement(q)
          [] ParserMatches(p, {"LEFT_BRACE"}) ->
                Then(ParseBlock(q), LAMBDA b : Parsed(b.p, BlockStmt(b.node)))
          [] OTHER -> ParseExpressionStatement(p)

RECURSIVE ParseParameters(_, _)
\* the do-while loop of #function, from a parameter on
ParseParameters(p, parameters) ==
    Then(ParserConsume(IF Len(parameters) >= 255
                       THEN ParserReport(p, ParserPeek(p),
                                         "Can't have more than 255 parameters.")
                       ELSE p, "IDENTIFIER", "Expect parameter name."),
         LAMBDA name :
            IF ParserMatches(name.p, {"COMMA"})
            THEN ParseParameters(ParserAdvance(name.p),
                                 Append(parameters, name.node.lexeme))
            ELSE Parsed(name.p, Append(parameters, name.node.lexeme)))

\* #function(kind)
ParseFunction(p, kind) ==
    Then(ParserConsume(p, "IDENTIFIER", "Expect " \o kind \o " name."), LAMBDA name :
    Then(ParserConsume(name.p, "LEFT_PAREN", "Expect '(' after " \o kind \o " name."),
         LAMBDA open :
    Then(IF ~ParserCheck(open.p, "RIGHT_PAREN") THEN ParseParameters(open.p, << >>)
         ELSE Parsed(open.p, << >>), LAMBDA parameters :
    Then(ParserConsume(parameters.p, "RIGHT_PAREN", "Expect ')' after parameters."),
         LAMBDA close :
    Then(ParserConsume(close.p, "LEFT_BRACE", "Expect '{' before " \o kind \o " body."),
         LAMBDA brace :
    Then(ParseBlock(brace.p), LAMBDA body :
         Parsed(body.p, FunctionStmt(name.node.lexeme, parameters.node, body.node))))))))

RECURSIVE ParseMethods(_, _)
\* the while loop of #classDeclaration
ParseMethods(p, methods) ==
    IF ~ParserCheck(p, "RIGHT_BRACE") /\ ~ParserDone(p)
    THEN Then(ParseFunction(p, "method"),
              LAMBDA method : ParseMethods(method.p, Append(methods, method.node)))
    ELSE Parsed(p, methods)

\* #classDeclaration
ParseClassDeclaration(p) ==
    Then(ParserConsume(p, "IDENTIFIER", "Expect class name."), LAMBDA name :
    Then(ParserConsume(name.p, "LEFT_BRACE", "Expect '{' before class body."),
         LAMBDA open :
    Then(ParseMethods(open.p, << >>), LAMBDA methods :
    Then(ParserConsume(methods.p, "RIGHT_BRACE", "Expect '}' after class body."),
         LAMBDA close : Parsed(close.p, ClassStmt(name.node.lexeme, methods.node))))))

\* the try block of #declaration
ParseDeclarationTry(p) ==
    LET q == ParserAdvance(p)
    IN  CASE ParserMatches(p, {"CLASS"}) -> ParseClassDeclaration(q)
          [] ParserMatches(p, {"FUN"}) -> ParseFunction(q, "function")
          [] ParserMatches(p, {"VAR"}) -> ParseVarDeclaration(q)
          [] OTHER -> ParseStatement(p)

\* a catch of #declaration that returns without #synchronize
CatchParseErrorNoSynchronize(r) == IF r.ok THEN r ELSE Parsed(r.p, Absent)

\* the catch of #declaration: node is Absent when a ParseError was caught
CatchParseError(r) == IF r.ok THEN r ELSE Parsed(Synchronize(r.p), Absent)

\* #declaration
ParseDeclaration(p) == CatchParseError(ParseDeclarationTry(p))

\* the statement pushed by the loop of parse: [p, statements]
ParsePush(statements, statement) ==
    [p |-> statement.p, statements |-> PushStatement(statements, statement.node)]

\* one turn of the loop of parse: [p, statements]
ParseNext(p, statements) == ParsePush(statements, ParseDeclaration(p))

\* parse continues from n = [p, statements]
RECURSIVE ParseFrom(_)
ParseFrom(n) == IF ParserDone(n.p) THEN n ELSE ParseFrom(ParseNext(n.p, n.statements))

\* parse
parse(p) == ParseFrom([p |-> p, statements |-> << >>])

(***************************************************************************)
(* Inputs.  A source text is given with what Scanner.scanTokens and        *)
(* Parser.parse make of it: the number of errors each reports through      *)
(* Lox.error and the statements the parser returns (a declaration that     *)
(* failed to parse leaves no statement).  The driver claims depend on the  *)
(* text only through these and through its emptiness.                      *)
(***************************************************************************)
Source(text, scanErrors, parseErrors, stmts) ==
    [text |-> text, scanErrors |-> scanErrors, parseErrors |-> parseErrors,
     stmts |-> stmts]

CallShowA == ExpressionStmt(Call(Variable("showA"), << >>))

\* var a = "global"; { fun showA() { print a; } showA(); var a = "block"; showA(); }
SrcStatic ==
    Source("var a = \"global\"; { fun showA() { print a; } showA(); var a = \"block\"; showA(); }",
           0, 0,
           << VarStmt("a", Literal(Str("global"))),
              BlockStmt(<< FunctionStmt("showA", << >>, << PrintStmt(Variable("a")) >>),
                           CallShowA,
                           VarStmt("a", Literal(Str("block"))),
                           CallShowA >>) >>)

\* fun f(n) { while (n < 2) { if (n == 1) { return n; } n = n + 1; } }
\* fun g() { return f(0) + 1; }  print g();
SrcReturn ==
    Source("fun f(n) { while (n < 2) { if (n == 1) { return n; } n = n + 1; } } fun g() { return f(0) + 1; } print g();",
           0, 0,
           << FunctionStmt("f", << "n" >>,
                << WhileStmt(Binary(Variable("n"), "LESS", Literal(Num(2))),
                     BlockStmt(<< IfStmt(Binary(Variable("n"), "EQUAL_EQUAL", Literal(Num(1))),
                                         BlockStmt(<< ReturnStmt(Variable("n")) >>),
                                         Absent),
                                  ExpressionStmt(Assign("n",
                                      Binary(Variable("n"), "PLUS", Literal(Num(1))))) >>)) >>),
              FunctionStmt("g", << >>,
                << ReturnStmt(Binary(Call(Variable("f"), << Literal(Num(0)) >>), "PLUS",
                                     Literal(Num(1)))) >>),
              PrintStmt(Call(Variable("g"), << >>)) >>)

\* var b = 1; { fun h() { b = 2; return -"x"; } h(); } b = 3;
SrcError ==
    Source("var b = 1; { fun h() { b = 2; return -\"x\"; } h(); } b = 3;",
           0, 0,
           << VarStmt("b", Literal(Num(1))),
              BlockStmt(<< FunctionStmt("h", << >>,
                             << ExpressionStmt(Assign("b", Literal(Num(2)))),
                                ReturnStmt(Unary("MINUS", Literal(Str("x")))) >>),
                           ExpressionStmt(Call(Variable("h"), << >>)) >>),
              ExpressionStmt(Assign("b", Literal(Num(3)))) >>)

\* print b;
SrcRead == Source("print b;", 0, 0, << PrintStmt(Variable("b")) >>)

\* var c; if (!(c == nil) or false) print c; else if (c and true) nil();
SrcLogic ==
    Source("var c; if (!(c == nil) or false) print c; else if (c and true) nil();",
           0, 0,
           << VarStmt("c", Absent),
              IfStmt(Logical(Unary("BANG", Grouping(Binary(Variable("c"), "EQUAL_EQUAL",
                                                         Literal(Nil)))),
                             "OR", Literal(Bool(FALSE))),
                     PrintStmt(Variable("c")),
                     IfStmt(Logical(Variable("c"), "AND", Literal(Bool(TRUE))),
                            ExpressionStmt(Call(Literal(Nil), << >>)),
                            Absent)) >>)

\* var b = clock(); clock(b); b = 0;
SrcClock ==
    Source("var b = clock(); clock(b); b = 0;",
           0, 0,
           << VarStmt("b", Call(Variable("clock"), << >>)),
              ExpressionStmt(Call(Variable("clock"), << Variable("b") >>)),
              ExpressionStmt(Assign("b", Literal(Num(0)))) >>)

\* var d = 1; return d;          (the resolver reports the top-level return)
SrcTopReturn ==
    Source("var d = 1; return d;", 0, 0,
           << VarStmt("d", Literal(Num(1))), ReturnStmt(Variable("d")) >>)

\* var b = 7; @                  (the scanner reports the character @)
SrcScanError ==
    Source("var b = 7; @", 1, 0, << VarStmt("b", Literal(Num(7))) >>)

\* var b = 8; print ;            (the parser reports the missing expression)
SrcParseError ==
    Source("var b = 8; print ;", 0, 1, << VarStmt("b", Literal(Num(8))) >>)

\* the empty line
SrcEmpty == Source("", 0, 0, << >>)

\* fun mk() { var i = 0; fun inc() { i = i + 1; return i; } return inc; }
\* var c1 = mk(); var c2 = mk(); print c1(); print c1(); print c1(); print c2();
SrcClosure ==
    Source("fun mk() { var i = 0; fun inc() { i = i + 1; return i; } return inc; } var c1 = mk(); var c2 = mk(); print c1(); print c1(); print c1(); print c2();",
           0, 0,
           << FunctionStmt("mk", << >>,
                << VarStmt("i", Literal(Num(0))),
                   FunctionStmt("inc", << >>,
                     << ExpressionStmt(Assign("i",
                            Binary(Variable("i"), "PLUS", Literal(Num(1))))),
                        ReturnStmt(Variable("i")) >>),
                   ReturnStmt(Variable("inc")) >>),
              VarStmt("c1", Call(Variable("mk"), << >>)),
              VarStmt("c2", Call(Variable("mk"), << >>)),
              PrintStmt(Call(Variable("c1"), << >>)),
              PrintStmt(Call(Variable("c1"), << >>)),
              PrintStmt(Call(Variable("c1"), << >>)),
              PrintStmt(Call(Variable("c2"), << >>)) >>)

\* var k = 0; var n = 0; fun q(a) { n = 9; } k = q; k(k = 1, n = 2);
SrcCallArity ==
    Source("var k = 0; var n = 0; fun q(a) { n = 9; } k = q; k(k = 1, n = 2);",
           0, 0,
           << VarStmt("k", Literal(Num(0))),
              VarStmt("n", Literal(Num(0))),
              FunctionStmt("q", << "a" >>,
                << ExpressionStmt(Assign("n", Literal(Num(9)))) >>),
              ExpressionStmt(Assign("k", Variable("q"))),
              ExpressionStmt(Call(Variable("k"),
                  << Assign("k", Literal(Num(1))), Assign("n", Literal(Num(2))) >>)) >>)

\* var m = 0; "s"(m = 1, m = m + 1);
SrcCallNotCallable ==
    Source("var m = 0; \"s\"(m = 1, m = m + 1);",
           0, 0,
           << VarStmt("m", Literal(Num(0))),
              ExpressionStmt(Call(Literal(Str("s")),
                  << Assign("m", Literal(Num(1))),
                     Assign("m", Binary(Variable("m"), "PLUS", Literal(Num(1)))) >>)) >>)

\* class C { init(a) { this.a = a; if (a) return; this.b = 2; } }
\* var i = C(true); print i; print C(false).b; print i.init(false); print i.init(true);
SrcInit ==
    Source("class C { init(a) { this.a = a; if (a) return; this.b = 2; } } var i = C(true); print i; print C(false).b; print i.init(false); print i.init(true);",
           0, 0,
           << ClassStmt("C",
                << FunctionStmt("init", << "a" >>,
                     << ExpressionStmt(Set(This, "a", Variable("a"))),
                        IfStmt(Variable("a"), ReturnStmt(Literal(Nil)), Absent),
                        ExpressionStmt(Set(This, "b", Literal(Num(2)))) >>) >>),
              VarStmt("i", Call(Variable("C"), << Literal(Bool(TRUE)) >>)),
              PrintStmt(Variable("i")),
              PrintStmt(Get(Call(Variable("C"), << Literal(Bool(FALSE)) >>), "b")),
              PrintStmt(Call(Get(Variable("i"), "init"), << Literal(Bool(FALSE)) >>)),
              PrintStmt(Call(Get(Variable("i"), "init"), << Literal(Bool(TRUE)) >>)) >>)

\* class D { m() { return this.v; } }
\* var d = D(); d.v = 1; var f = d.m; print f == d.m; print f(); d.m = 5;
\* print d.m; print d.x;
SrcGet ==
    Source("class D { m() { return this.v; } } var d = D(); d.v = 1; var f = d.m; print f == d.m; print f(); d.m = 5; print d.m; print d.x;",
           0, 0,
           << ClassStmt("D",
                << FunctionStmt("m", << >>, << ReturnStmt(Get(This, "v")) >>) >>),
              VarStmt("d", Call(Variable("D"), << >>)),
              ExpressionStmt(Set(Variable("d"), "v", Literal(Num(1)))),
              VarStmt("f", Get(Variable("d"), "m")),
              PrintStmt(Binary(Variable("f"), "EQUAL_EQUAL", Get(Variable("d"), "m"))),
              PrintStmt(Call(Variable("f"), << >>)),
              ExpressionStmt(Set(Variable("d"), "m", Literal(Num(5)))),
              PrintStmt(Get(Variable("d"), "m")),
              PrintStmt(Get(Variable("d"), "x")) >>)

(***************************************************************************)
(* The for loops: texts given to runFile with what the scanner and the     *)
(* parser above make of them.                                              *)
(***************************************************************************)
\* var a = 0
TextForVar ==
    << "v", "a", "r", " ", "a", " ", "=", " ", "0" >>
\* a = 0
TextForAssign ==
    << "a", " ", "=", " ", "0" >>
\* a < 2
TextForCondition ==
    << "a", " ", "<", " ", "2" >>
\* a = a + 1
TextForIncrement ==
    << "a", " ", "=", " ", "a", " ", "+", " ", "1" >>
\* { print a; a = a + 1; if (a > 2) a(); }
TextForBody ==
    << "{", " ", "p", "r", "i", "n", "t", " ", "a", ";", " ", "a", " ", "=",
       " ", "a", " ", "+", " ", "1", ";", " ", "i", "f", " ", "(", "a", " ",
       ">", " ", "2", ")", " ", "a", "(", ")", ";", " ", "}" >>

\* the initializers, conditions and increments; << >> is a missing clause
ForInitializers == << << >>, TextForVar, TextForAssign >>
ForConditions == << << >>, TextForCondition >>
ForIncrements == << << >>, TextForIncrement >>

\* var a = 0; for (initializer; condition; increment) body
ForText(initializer, condition, increment) ==
    TextForVar \o << ";", " ", "f", "o", "r", " ", "(" >> \o initializer
               \o << ";", " " >> \o condition \o << ";", " " >> \o increment
               \o << ")", " " >> \o TextForBody

\* the clauses as the parser returns them; Absent is a missing clause
ForInitializerNodes ==
    << Absent, VarStmt("a", Literal(Num(0))),
       ExpressionStmt(Assign("a", Literal(Num(0)))) >>
ForConditionNodes == << Absent, Binary(Variable("a"), "LESS", Literal(Num(2))) >>
ForIncrementNodes ==
    << Absent, Assign("a", Binary(Variable("a"), "PLUS", Literal(Num(1)))) >>
ForBody ==
    BlockStmt(<< PrintStmt(Variable("a")),
                 ExpressionStmt(Assign("a", Binary(Variable("a"), "PLUS",
                                                   Literal(Num(1))))),
                 IfStmt(Binary(Variable("a"), "GREATER", Literal(Num(2))),
                        ExpressionStmt(Call(Variable("a"), << >>)),
                        Absent) >>)

\* var a = 0; for (initializer; condition; increment) body, with the
\* statement that #forStatement returns for the loop
SrcFor(i, c, u) ==
    Source("var a = 0; for (...; ...; ...) { print a; a = a + 1; if (a > 2) a(); }",
           0, 0,
           << VarStmt("a", Literal(Num(0))),
              ForLoop(ForInitializerNodes[i], ForConditionNodes[c],
                      ForIncrementNodes[u], ForBody) >>)

\* the loops, by the index of initializer, condition and increment
ForCases ==
    << << 1, 1, 1 >>, << 1, 1, 2 >>, << 1, 2, 1 >>, << 1, 2, 2 >>,
       << 2, 1, 1 >>, << 2, 1, 2 >>, << 2, 2, 1 >>, << 2, 2, 2 >>,
       << 3, 1, 1 >>, << 3, 1, 2 >>, << 3, 2, 1 >>, << 3, 2, 2 >> >>

ForSources == [k \in DOMAIN ForCases |->
                 SrcFor(ForCases[k][1], ForCases[k][2], ForCases[k][3])]

\* var x = 1; { var x = 2; { var y = 0; x = 3; print x; } print x; } print x; z = 4;
SrcAssign ==
    Source("var x = 1; { var x = 2; { var y = 0; x = 3; print x; } print x; } print x; z = 4;",
           0, 0,
           << VarStmt("x", Literal(Num(1))),
              BlockStmt(<< VarStmt("x", Literal(Num(2))),
                           BlockStmt(<< VarStmt("y", Literal(Num(0))),
                                        ExpressionStmt(Assign("x", Literal(Num(3)))),
                                        PrintStmt(Variable("x")) >>),
                           PrintStmt(Variable("x")) >>),
              PrintStmt(Variable("x")),
              ExpressionStmt(Assign("z", Literal(Num(4)))) >>)

\* the lines the console supplies to runPrompt
ConsoleSources ==
    << SrcStatic, SrcReturn, SrcError, SrcRead, SrcLogic, SrcClock, SrcTopReturn,
       SrcScanError, SrcParseError, SrcEmpty, SrcClosure >>

\* the files given to runFile besides the texts above
ProgramSources ==
    << SrcCallArity, SrcCallNotCallable, SrcInit, SrcGet, SrcAssign >>
FileSources == ProgramSources \o ForSources

Sources == ConsoleSources \o FileSources


(***************************************************************************)
(* State.                                                                  *)
(***************************************************************************)
VARIABLES
    pc,               \* where the driver is: "main", "prompt", "scan", "parse",
                      \* "syntaxGate", "resolve", "resolveGate", "interpret",
                      \* "interpreting", "ret", "exited"
    mode,             \* "none", "repl" (runPrompt) or "file" (runFile)
    hadError,         \* Lox.ts: let hadError
    hadRuntimeError,  \* Lox.ts: let hadRuntimeError
    exitCode,         \* -1 while the process runs; 0, 64, 65, 70 once it has
                      \* ended; 1 when an uncaught exception ended it
    src,              \* index in Sources of the text given to run(); 0: none yet
    statements,       \* what Parser.parse returned in this run()
    lines,            \* the lines the console has supplied so far, as indexes
                      \* in Sources
    ran,              \* number of calls of run() so far
    interpreted,      \* whether this run() called interpreter.interpret
    envs,             \* heap of Environment objects; envs[GlobalsId] is globals
    funcs,            \* heap of Function objects: [declaration, closure]
    environment,      \* Interpreter.#environment
    ctl,              \* what the interpreter is doing:
                      \*   [m = "idle"]      not inside interpret()
                      \*   [m = "exec", s]   about to execute statement s
                      \*   [m = "eval", e]   about to evaluate expression e
                      \*   [m = "val", v]    an expression returned v
                      \*   [m = "next"]      a statement returned
                      \*   [m = "invoke", callee, args]  callee and arguments
                      \*                     of a call are evaluated
                      \*   [m = "throw", x]  x is thrown and propagates
    kont,             \* the active calls of the interpreter, innermost first
    out,              \* the lines written by console.log
    classes,          \* heap of Class objects: [name, superclass, methods];
                      \* superclass is NoClass or a Class, methods a Map from
                      \* names to Function objects of funcs
    instances,        \* heap of Instance objects: [class, fields]
    stage,            \* where the front end of run() is (specification FrontEnd):
                      \* "scan", "parse", "resolve", "end"; "idle" in Spec
    scanner,          \* the Scanner of this run()
    parser,           \* the Parser of this run()
    resolver          \* the Resolver of this run()

driverVars == << pc, mode, hadError, hadRuntimeError, exitCode, src, statements,
                 lines, ran, interpreted >>
objectVars == << classes, instances >>
interpVars == << envs, funcs, environment, ctl, kont, out, classes, instances >>
frontVars == << stage, scanner, parser, resolver >>
vars == << pc, mode, hadError, hadRuntimeError, exitCode, src, statements,
           lines, ran, interpreted, envs, funcs, environment, ctl, kont, out,
           classes, instances,
           stage, scanner, parser, resolver >>

Idle == [m |-> "idle"]
Exec(s) == [m |-> "exec", s |-> s]
Eval(e) == [m |-> "eval", e |-> e]
Val(v) == [m |-> "val", v |-> v]
Done == [m |-> "next"]
Invoke(callee, args) == [m |-> "invoke", callee |-> callee, args |-> args]
Throw(x) == [m |-> "throw", x |-> x]

\* const interpreter = new Interpreter(): globals holds the native clock
LoxInit ==
    /\ pc = "main"
    /\ mode = "none"
    /\ hadError = FALSE
    /\ hadRuntimeError = FALSE
    /\ exitCode = -1
    /\ src = 0
    /\ statements = << >>
    /\ lines = << >>
    /\ ran = 0
    /\ interpreted = FALSE
    /\ envs = EnvDefine(<< NewEnvironment(NoEnv) >>, GlobalsId, "clock", Clock)
    /\ funcs = << >>
    /\ environment = GlobalsId
    /\ ctl = Idle
    /\ kont = << >>
    /\ out = << >>
    /\ classes = << >>
    /\ instances = << >>

\* Spec takes the outcome of scanner and parser from Sources
Init ==
    /\ LoxInit
    /\ stage = "idle"
    /\ scanner = NewScanner(<< >>)
    /\ parser = NewParser(<< >>)
    /\ resolver = NewResolver

(***************************************************************************)
(* Driver: src/src/Lox.ts.                                                 *)
(***************************************************************************)
\* the values of Bun.argv.length that main tells apart
ArgvLengths == {2, 3, 4}

\* run(source) is entered with this source
EnterRun(i) ==
    /\ src' = i
    /\ statements' = << >>
    /\ ran' = ran + 1
    /\ interpreted' = FALSE
    /\ pc' = "scan"

\* main(): the switch on Bun.argv.length; runFile reads the file and calls run
Main ==
    /\ pc = "main"
    /\ \E n \in ArgvLengths :
         CASE n = 2 ->
                /\ mode' = "repl"
                /\ pc' = "prompt"
                /\ UNCHANGED << exitCode, src, statements, ran, interpreted >>
           [] n = 3 ->
                /\ mode' = "file"
                /\ \E i \in 1..Len(Sources) : EnterRun(i)
                /\ UNCHANGED exitCode
           [] OTHER ->
                /\ exitCode' = 64
                /\ pc' = "exited"
                /\ UNCHANGED << mode, src, statements, ran, interpreted >>
    /\ UNCHANGED << hadError, hadRuntimeError, lines >>
    /\ UNCHANGED interpVars
    /\ UNCHANGED frontVars

\* runPrompt: the console supplies one more line; an empty line leaves the loop
ReadLine ==
    /\ pc = "prompt"
    /\ Len(lines) < MaxLines
    /\ \E i \in 1..Len(ConsoleSources) :
         /\ lines' = Append(lines, i)
         /\ IF Sources[i].text = ""
            THEN /\ pc' = "exited"
                 /\ exitCode' = 0
                 /\ UNCHANGED << src, statements, ran, interpreted >>
            ELSE /\ EnterRun(i)
                 /\ UNCHANGED exitCode
    /\ UNCHANGED << mode, hadError, hadRuntimeError >>
    /\ UNCHANGED interpVars
    /\ UNCHANGED frontVars

\* runPrompt: the console is at end of input, the loop ends and main returns
ReadEOF ==
    /\ pc = "prompt"
    /\ pc' = "exited"
    /\ exitCode' = 0
    /\ UNCHANGED << mode, hadError, hadRuntimeError, src, statements, lines, ran,
                    interpreted >>
    /\ UNCHANGED interpVars
    /\ UNCHANGED frontVars

\* run: scanner.scanTokens(); every scan error goes through report()
RunScan ==
    /\ pc = "scan"
    /\ hadError' = (hadError \/ Sources[src].scanErrors > 0)
    /\ pc' = "parse"
    /\ UNCHANGED << mode, hadRuntimeError, exitCode, src, statements, lines, ran,
                    interpreted >>
    /\ UNCHANGED interpVars
    /\ UNCHANGED frontVars

\* run: parser.parse(); every parse error goes through report()
RunParse ==
    /\ pc = "parse"
    /\ hadError' = (hadError \/ Sources[src].parseErrors > 0)
    /\ statements' = Sources[src].stmts
    /\ pc' = "syntaxGate"
    /\ UNCHANGED << mode, hadRuntimeError, exitCode, src, lines, ran, interpreted >>
    /\ UNCHANGED interpVars
    /\ UNCHANGED frontVars

\* run: if (hadError) return;   (stop if there was a syntax error)
RunSyntaxGate ==
    /\ pc = "syntaxGate"
    /\ pc' = IF hadError THEN "ret" ELSE "resolve"
    /\ UNCHANGED << mode, hadError, hadRuntimeError, exitCode, src, statements, lines,
                    ran, interpreted >>
    /\ UNCHANGED interpVars
    /\ UNCHANGED frontVars

\* run: new Resolver(interpreter).resolve(...statements); every resolution error
\* goes through report()
RunResolve ==
    /\ pc = "resolve"
    /\ hadError' = (hadError \/ ResolveAll(NewResolver, statements).errors # << >>)
    /\ pc' = "resolveGate"
    /\ UNCHANGED << mode, hadRuntimeError, exitCode, src, statements, lines, ran,
                    interpreted >>
    /\ UNCHANGED interpVars
    /\ UNCHANGED frontVars

\* a run that goes on to interpret after a resolution error
RunResolveGateOpen ==
    /\ pc = "resolveGate"
    /\ pc' = "interpret"
    /\ UNCHANGED << mode, hadError, hadRuntimeError, exitCode, src, statements, lines,
                    ran, interpreted >>
    /\ UNCHANGED << envs, funcs, environment, ctl, kont, out >>
    /\ UNCHANGED frontVars
    /\ UNCHANGED objectVars

\* run: if (hadError) return;   (stop if there was a resolution error)
RunResolveGate ==
    /\ pc = "resolveGate"
    /\ pc' = IF hadError THEN "ret" ELSE "interpret"
    /\ UNCHANGED << mode, hadError, hadRuntimeError, exitCode, src, statements, lines,
                    ran, interpreted >>
    /\ UNCHANGED interpVars
    /\ UNCHANGED frontVars

\* a prompt loop that leaves hadError as run() left it
PromptAgainNoReset ==
    /\ pc = "ret"
    /\ mode = "repl"
    /\ pc' = "prompt"
    /\ UNCHANGED << mode, hadError, hadRuntimeError, exitCode, src, statements, lines,
                    ran, interpreted >>
    /\ UNCHANGED << envs, funcs, environment, ctl, kont, out >>
    /\ UNCHANGED frontVars
    /\ UNCHANGED objectVars

\* a prompt loop that clears both flags
PromptAgainResetBoth ==
    /\ pc = "ret"
    /\ mode = "repl"
    /\ hadError' = FALSE
    /\ hadRuntimeError' = FALSE
    /\ pc' = "prompt"
    /\ UNCHANGED << mode, exitCode, src, statements, lines, ran, interpreted >>
    /\ UNCHANGED << envs, funcs, environment, ctl, kont, out >>
    /\ UNCHANGED frontVars
    /\ UNCHANGED objectVars

\* runPrompt after run(line): hadError = false, and the next prompt
PromptAgain ==
    /\ pc = "ret"
    /\ mode = "repl"
    /\ hadError' = FALSE
    /\ pc' = "prompt"
    /\ UNCHANGED << mode, hadRuntimeError, exitCode, src, statements, lines, ran,
                    interpreted >>
    /\ UNCHANGED interpVars
    /\ UNCHANGED frontVars

\* a runFile without its second exit
RunFileExitNo70 ==
    /\ pc = "ret"
    /\ mode = "file"
    /\ exitCode' = IF hadError THEN 65 ELSE 0
    /\ pc' = "exited"
    /\ UNCHANGED << mode, hadError, hadRuntimeError, src, statements, lines, ran,
                    interpreted >>
    /\ UNCHANGED << envs, funcs, environment, ctl, kont, out >>
    /\ UNCHANGED frontVars
    /\ UNCHANGED objectVars

\* runFile after run(source): exit 65, exit 70, or main returns
RunFileExit ==
    /\ pc = "ret"
    /\ mode = "file"
    /\ exitCode' = IF hadError THEN 65 ELSE IF hadRuntimeError THEN 70 ELSE 0
    /\ pc' = "exited"
    /\ UNCHANGED << mode, hadError, hadRuntimeError, src, statements, lines, ran,
                    interpreted >>
    /\ UNCHANGED interpVars
    /\ UNCHANGED frontVars

(***************************************************************************)
(* Interpreter: src/src/Interpreter.ts and src/src/Function.ts, one action *)
(* per visit method and per point where a visit method resumes after a     *)
(* nested evaluate/execute returned.                                       *)
(***************************************************************************)
Top == Head(kont)
Push(frame) == << frame >> \o kont
Pop == Tail(kont)
Running == pc = "interpreting"
AtExec(type) == Running /\ ctl.m = "exec" /\ ctl.s.t = type
AtEval(type) == Running /\ ctl.m = "eval" /\ ctl.e.t = type
ValueAt(f) == Running /\ ctl.m = "val" /\ kont # << >> /\ Top.f = f
DoneAt(f) == Running /\ ctl.m = "next" /\ kont # << >> /\ Top.f = f
ThrowAt(f) == Running /\ ctl.m = "throw" /\ kont # << >> /\ Top.f = f

\* executeBlock(statements, environment) is entered from the frames k:
\* prev = this.#environment; this.#environment = environment
EnterBlock(stmts, env, k) ==
    /\ kont' = << [f |-> "executeBlock", statements |-> stmts, i |-> 0,
                   prev |-> environment] >> \o k
    /\ environment' = env
    /\ ctl' = Done

\* a run that interprets with a new Interpreter
InterpretWithNewInterpreter ==
    /\ pc = "interpret"
    /\ pc' = "interpreting"
    /\ interpreted' = TRUE
    /\ kont' = << [f |-> "interpret", i |-> 0] >>
    /\ ctl' = Done
    /\ envs' = EnvDefine(<< NewEnvironment(NoEnv) >>, GlobalsId, "clock", Clock)
    /\ funcs' = << >>
    /\ environment' = GlobalsId
    /\ UNCHANGED << mode, hadError, hadRuntimeError, exitCode, src, statements, lines,
                    ran, out >>
    /\ UNCHANGED frontVars
    /\ UNCHANGED objectVars

\* run: interpreter.interpret(statements)
Interpret ==
    /\ pc = "interpret"
    /\ pc' = "interpreting"
    /\ interpreted' = TRUE
    /\ kont' = << [f |-> "interpret", i |-> 0] >>
    /\ ctl' = Done
    /\ UNCHANGED << mode, hadError, hadRuntimeError, exitCode, src, statements, lines,
                    ran >>
    /\ UNCHANGED << envs, funcs, environment, out >>
    /\ UNCHANGED frontVars
    /\ UNCHANGED objectVars

\* interpret: the for loop over the statements, and its normal end
InterpretLoop ==
    /\ DoneAt("interpret")
    /\ IF Top.i < Len(statements)
       THEN /\ kont' = << [Top EXCEPT !.i = @ + 1] >>
            /\ ctl' = Exec(statements[Top.i + 1])
            /\ pc' = pc
       ELSE /\ kont' = << >>
            /\ ctl' = Idle
            /\ pc' = "ret"
    /\ UNCHANGED << mode, hadError, hadRuntimeError, exitCode, src, statements, lines,
                    ran, interpreted >>
    /\ UNCHANGED << envs, funcs, environment, out >>
    /\ UNCHANGED frontVars
    /\ UNCHANGED objectVars

\* interpret: catch (error): a RuntimeError goes to Lox.runtimeError, which sets
\* hadRuntimeError; anything else is thrown again and nothing catches it
InterpretCatch ==
    /\ ThrowAt("interpret")
    /\ kont' = << >>
    /\ ctl' = Idle
    /\ IF ctl.x.k = "RuntimeError"
       THEN /\ hadRuntimeError' = TRUE
            /\ pc' = "ret"
            /\ UNCHANGED exitCode
       ELSE /\ exitCode' = 1
            /\ pc' = "exited"
            /\ UNCHANGED hadRuntimeError
    /\ UNCHANGED << mode, hadError, src, statements, lines, ran, interpreted >>
    /\ UNCHANGED << envs, funcs, environment, out >>
    /\ UNCHANGED frontVars
    /\ UNCHANGED objectVars

visitVarStmt ==
    /\ AtExec("Var")
    /\ IF ctl.s.initializer # Absent
       THEN /\ kont' = Push([f |-> "var", name |-> ctl.s.name])
            /\ ctl' = Eval(ctl.s.initializer)
            /\ UNCHANGED envs
       ELSE /\ envs' = EnvDefine(envs, environment, ctl.s.name, Nil)
            /\ ctl' = Done
            /\ UNCHANGED kont
    /\ UNCHANGED << funcs, environment, out >>
    /\ UNCHANGED driverVars
    /\ UNCHANGED frontVars
    /\ UNCHANGED objectVars

visitVarStmtDefine ==
    /\ ValueAt("var")
    /\ envs' = EnvDefine(envs, environment, Top.name, ctl.v)
    /\ kont' = Pop
    /\ ctl' = Done
    /\ UNCHANGED << funcs, environment, out >>
    /\ UNCHANGED driverVars
    /\ UNCHANGED frontVars
    /\ UNCHANGED objectVars

visitExpressionStmt ==
    /\ AtExec("Expression")
    /\ kont' = Push([f |-> "expression"])
    /\ ctl' = Eval(ctl.s.expr)
    /\ UNCHANGED << envs, funcs, environment, out >>
    /\ UNCHANGED driverVars
    /\ UNCHANGED frontVars
    /\ UNCHANGED objectVars

visitExpressionStmtDone ==
    /\ ValueAt("expression")
    /\ kont' = Pop
    /\ ctl' = Done
    /\ UNCHANGED << envs, funcs, environment, out >>
    /\ UNCHANGED driverVars
    /\ UNCHANGED frontVars
    /\ UNCHANGED objectVars

visitFunctionStmt ==
    /\ AtExec("Function")
    /\ funcs' = Append(funcs, [declaration |-> ctl.s, closure |-> environment])
    /\ envs' = EnvDefine(envs, environment, ctl.s.name, Fn(Len(funcs) + 1))
    /\ ctl' = Done
    /\ UNCHANGED << environment, kont, out >>
    /\ UNCHANGED driverVars
    /\ UNCHANGED frontVars
    /\ UNCHANGED objectVars

visitPrintStmt ==
    /\ AtExec("Print")
    /\ kont' = Push([f |-> "print"])
    /\ ctl' = Eval(ctl.s.expr)
    /\ UNCHANGED << envs, funcs, environment, out >>
    /\ UNCHANGED driverVars
    /\ UNCHANGED frontVars
    /\ UNCHANGED objectVars

visitPrintStmtLog ==
    /\ ValueAt("print")
    /\ out' = Append(out, stringify(ctl.v, funcs, classes, instances))
    /\ kont' = Pop
    /\ ctl' = Done
    /\ UNCHANGED << envs, funcs, environment >>
    /\ UNCHANGED driverVars
    /\ UNCHANGED frontVars
    /\ UNCHANGED objectVars

visitReturnStmt ==
    /\ AtExec("Return")
    /\ IF ctl.s.value # Absent
       THEN /\ kont' = Push([f |-> "return"])
            /\ ctl' = Eval(ctl.s.value)
       ELSE /\ ctl' = Throw(Return(Nil))
            /\ UNCHANGED kont
    /\ UNCHANGED << envs, funcs, environment, out >>
    /\ UNCHANGED driverVars
    /\ UNCHANGED frontVars
    /\ UNCHANGED objectVars

\* throw new Return(value)
visitReturnStmtThrow ==
    /\ ValueAt("return")
    /\ kont' = Pop
    /\ ctl' = Throw(Return(ctl.v))
    /\ UNCHANGED << envs, funcs, environment, out >>
    /\ UNCHANGED driverVars
    /\ UNCHANGED frontVars
    /\ UNCHANGED objectVars

\* executeBlock(stmt.statements, new Environment(this.#environment))
visitBlockStmt ==
    /\ AtExec("Block")
    /\ envs' = Append(envs, NewEnvironment(environment))
    /\ EnterBlock(ctl.s.statements, Len(envs) + 1, kont)
    /\ UNCHANGED << funcs, out >>
    /\ UNCHANGED driverVars
    /\ UNCHANGED frontVars
    /\ UNCHANGED objectVars

\* executeBlock: the for loop, and the finally clause on its normal end
executeBlockLoop ==
    /\ DoneAt("executeBlock")
    /\ IF Top.i < Len(Top.statements)
       THEN /\ kont' = << [Top EXCEPT !.i = @ + 1] >> \o Pop
            /\ ctl' = Exec(Top.statements[Top.i + 1])
            /\ UNCHANGED environment
       ELSE /\ kont' = Pop
            /\ environment' = Top.prev
            /\ ctl' = Done
    /\ UNCHANGED << envs, funcs, out >>
    /\ UNCHANGED driverVars
    /\ UNCHANGED frontVars
    /\ UNCHANGED objectVars

\* an executeBlock that restores the environment only on its normal end
executeBlockNoFinally ==
    /\ ThrowAt("executeBlock")
    /\ kont' = Pop
    /\ UNCHANGED << envs, funcs, environment, ctl, out >>
    /\ UNCHANGED driverVars
    /\ UNCHANGED frontVars
    /\ UNCHANGED objectVars

\* executeBlock: the finally clause when a statement threw
executeBlockFinally ==
    /\ ThrowAt("executeBlock")
    /\ kont' = Pop
    /\ environment' = Top.prev
    /\ UNCHANGED << envs, funcs, ctl, out >>
    /\ UNCHANGED driverVars
    /\ UNCHANGED frontVars
    /\ UNCHANGED objectVars

visitIfStmt ==
    /\ AtExec("If")
    /\ kont' = Push([f |-> "if", stmt |-> ctl.s])
    /\ ctl' = Eval(ctl.s.condition)
    /\ UNCHANGED << envs, funcs, environment, out >>
    /\ UNCHANGED driverVars
    /\ UNCHANGED frontVars
    /\ UNCHANGED objectVars

visitIfStmtBranch ==
    /\ ValueAt("if")
    /\ kont' = Pop
    /\ ctl' = IF isTruthy(ctl.v) THEN Exec(Top.stmt.thenBranch)
              ELSE IF Top.stmt.elseBranch # Absent THEN Exec(Top.stmt.elseBranch)
              ELSE Done
    /\ UNCHANGED << envs, funcs, environment, out >>
    /\ UNCHANGED driverVars
    /\ UNCHANGED frontVars
    /\ UNCHANGED objectVars

\* visitWhileStmt: the condition is evaluated, first and after each body
visitWhileStmt ==
    /\ \/ /\ AtExec("While")
          /\ kont' = Push([f |-> "while", stmt |-> ctl.s])
          /\ ctl' = Eval(ctl.s.condition)
       \/ /\ DoneAt("whileBody")
          /\ kont' = << [Top EXCEPT !.f = "while"] >> \o Pop
          /\ ctl' = Eval(Top.stmt.condition)
    /\ UNCHANGED << envs, funcs, environment, out >>
    /\ UNCHANGED driverVars
    /\ UNCHANGED frontVars
    /\ UNCHANGED objectVars

\* visitWhileStmt: the condition returned
visitWhileStmtTest ==
    /\ ValueAt("while")
    /\ IF isTruthy(ctl.v)
       THEN /\ kont' = << [Top EXCEPT !.f = "whileBody"] >> \o Pop
            /\ ctl' = Exec(Top.stmt.body)
       ELSE /\ kont' = Pop
            /\ ctl' = Done
    /\ UNCHANGED << envs, funcs, environment, out >>
    /\ UNCHANGED driverVars
    /\ UNCHANGED frontVars
    /\ UNCHANGED objectVars

visitLiteralExpr ==
    /\ AtEval("Literal")
    /\ ctl' = Val(ctl.e.value)
    /\ UNCHANGED << envs, funcs, environment, kont, out >>
    /\ UNCHANGED driverVars
    /\ UNCHANGED frontVars
    /\ UNCHANGED objectVars

\* return this.#environment.get(expr.name)
visitVariableExpr ==
    /\ AtEval("Variable")
    /\ LET r == EnvGet(envs, environment, ctl.e.name)
       IN  ctl' = IF r.ok THEN Val(r.value) ELSE Throw(RuntimeError(r.message))
    /\ UNCHANGED << envs, funcs, environment, kont, out >>
    /\ UNCHANGED driverVars
    /\ UNCHANGED frontVars
    /\ UNCHANGED objectVars

visitAssignExpr ==
    /\ AtEval("Assign")
    /\ kont' = Push([f |-> "assign", name |-> ctl.e.name])
    /\ ctl' = Eval(ctl.e.value)
    /\ UNCHANGED << envs, funcs, environment, out >>
    /\ UNCHANGED driverVars
    /\ UNCHANGED frontVars
    /\ UNCHANGED objectVars

\* this.#environment.assign(expr.name, value); return value
visitAssignExprAssign ==
    /\ ValueAt("assign")
    /\ kont' = Pop
    /\ LET r == EnvAssign(envs, environment, Top.name, ctl.v)
       IN  IF r.ok
           THEN envs' = r.heap /\ ctl' = ctl
           ELSE envs' = envs /\ ctl' = Throw(RuntimeError(r.message))
    /\ UNCHANGED << funcs, environment, out >>
    /\ UNCHANGED driverVars
    /\ UNCHANGED frontVars
    /\ UNCHANGED objectVars

visitGroupingExpr ==
    /\ AtEval("Grouping")
    /\ ctl' = Eval(ctl.e.expr)
    /\ UNCHANGED << envs, funcs, environment, kont, out >>
    /\ UNCHANGED driverVars
    /\ UNCHANGED frontVars
    /\ UNCHANGED objectVars

visitBinaryExpr ==
    /\ AtEval("Binary")
    /\ kont' = Push([f |-> "binaryLeft", expr |-> ctl.e])
    /\ ctl' = Eval(ctl.e.left)
    /\ UNCHANGED << envs, funcs, environment, out >>
    /\ UNCHANGED driverVars
    /\ UNCHANGED frontVars
    /\ UNCHANGED objectVars

\* visitBinaryExpr: left is evaluated, evaluate right
visitBinaryExprRight ==
    /\ ValueAt("binaryLeft")
    /\ kont' = << [f |-> "binaryRight", expr |-> Top.expr, left |-> ctl.v] >> \o Pop
    /\ ctl' = Eval(Top.expr.right)
    /\ UNCHANGED << envs, funcs, environment, out >>
    /\ UNCHANGED driverVars
    /\ UNCHANGED frontVars
    /\ UNCHANGED objectVars

\* visitBinaryExpr: the switch on the operator
visitBinaryExprApply ==
    /\ ValueAt("binaryRight")
    /\ kont' = Pop
    /\ LET r == BinaryOp(Top.expr.operator, Top.left, ctl.v)
       IN  ctl' = IF r.ok THEN Val(r.value) ELSE Throw(RuntimeError(r.message))
    /\ UNCHANGED << envs, funcs, environment, out >>
    /\ UNCHANGED driverVars
    /\ UNCHANGED frontVars
    /\ UNCHANGED objectVars

visitLogicalExpr ==
    /\ AtEval("Logical")
    /\ kont' = Push([f |-> "logical", expr |-> ctl.e])
    /\ ctl' = Eval(ctl.e.left)
    /\ UNCHANGED << envs, funcs, environment, out >>
    /\ UNCHANGED driverVars
    /\ UNCHANGED frontVars
    /\ UNCHANGED objectVars

\* if (isTruthy(left) === (operator is OR)) return left; return evaluate(right)
visitLogicalExprLeft ==
    /\ ValueAt("logical")
    /\ kont' = Pop
    /\ ctl' = IF isTruthy(ctl.v) = (Top.expr.operator = "OR") THEN ctl
              ELSE Eval(Top.expr.right)
    /\ UNCHANGED << envs, funcs, environment, out >>
    /\ UNCHANGED driverVars
    /\ UNCHANGED frontVars
    /\ UNCHANGED objectVars

visitUnaryExpr ==
    /\ AtEval("Unary")
    /\ kont' = Push([f |-> "unary", expr |-> ctl.e])
    /\ ctl' = Eval(ctl.e.expr)
    /\ UNCHANGED << envs, funcs, environment, out >>
    /\ UNCHANGED driverVars
    /\ UNCHANGED frontVars
    /\ UNCHANGED objectVars

visitUnaryExprApply ==
    /\ ValueAt("unary")
    /\ kont' = Pop
    /\ LET r == UnaryOp(Top.expr.operator, ctl.v)
       IN  ctl' = IF r.ok THEN Val(r.value) ELSE Throw(RuntimeError(r.message))
    /\ UNCHANGED << envs, funcs, environment, out >>
    /\ UNCHANGED driverVars
    /\ UNCHANGED frontVars
    /\ UNCHANGED objectVars

visitCallExpr ==
    /\ AtEval("Call")
    /\ kont' = Push([f |-> "callee", expr |-> ctl.e])
    /\ ctl' = Eval(ctl.e.callee)
    /\ UNCHANGED << envs, funcs, environment, out >>
    /\ UNCHANGED driverVars
    /\ UNCHANGED frontVars
    /\ UNCHANGED objectVars

\* a visitCallExpr that checks the callee before it evaluates the arguments
visitCallExprArgsCheckFirst ==
    /\ \/ /\ ValueAt("callee")
          /\ IF Top.expr.args = << >> \/ ~IsCallable(ctl.v)
             THEN /\ kont' = Pop
                  /\ ctl' = Invoke(ctl.v, << >>)
             ELSE /\ kont' = << [f |-> "args", expr |-> Top.expr, callee |-> ctl.v,
                                 args |-> << >>] >> \o Pop
                  /\ ctl' = Eval(Top.expr.args[1])
       \/ /\ ValueAt("args")
          /\ LET args == Append(Top.args, ctl.v)
             IN  IF Len(args) < Len(Top.expr.args)
                 THEN /\ kont' = << [Top EXCEPT !.args = args] >> \o Pop
                      /\ ctl' = Eval(Top.expr.args[Len(args) + 1])
                 ELSE /\ kont' = Pop
                      /\ ctl' = Invoke(Top.callee, args)
    /\ UNCHANGED << envs, funcs, environment, out >>
    /\ UNCHANGED driverVars
    /\ UNCHANGED frontVars
    /\ UNCHANGED objectVars

\* visitCallExpr: the callee, then each argument, returned; evaluate the next
\* argument, or go on to the checks when there is none
visitCallExprArgs ==
    /\ \/ /\ ValueAt("callee")
          /\ IF Top.expr.args = << >>
             THEN /\ kont' = Pop
                  /\ ctl' = Invoke(ctl.v, << >>)
             ELSE /\ kont' = << [f |-> "args", expr |-> Top.expr, callee |-> ctl.v,
                                 args |-> << >>] >> \o Pop
                  /\ ctl' = Eval(Top.expr.args[1])
       \/ /\ ValueAt("args")
          /\ LET args == Append(Top.args, ctl.v)
             IN  IF Len(args) < Len(Top.expr.args)
                 THEN /\ kont' = << [Top EXCEPT !.args = args] >> \o Pop
                      /\ ctl' = Eval(Top.expr.args[Len(args) + 1])
                 ELSE /\ kont' = Pop
                      /\ ctl' = Invoke(Top.callee, args)
    /\ UNCHANGED << envs, funcs, environment, out >>
    /\ UNCHANGED driverVars
    /\ UNCHANGED frontVars
    /\ UNCHANGED objectVars

\* visitCallExpr: callee is no Callable, or args.length !== fn.arity
visitCallExprReject ==
    /\ Running /\ ctl.m = "invoke"
    /\ \/ ~IsCallable(ctl.callee)
       \/ Len(ctl.args) # Arity(ctl.callee, funcs, classes)
    /\ ctl' = IF ~IsCallable(ctl.callee)
              THEN Throw(RuntimeError("Can only call functions and classes."))
              ELSE Throw(RuntimeError(ExpectedArguments(Arity(ctl.callee, funcs, classes),
                                                        Len(ctl.args))))
    /\ UNCHANGED << envs, funcs, environment, kont, out >>
    /\ UNCHANGED driverVars
    /\ UNCHANGED frontVars
    /\ UNCHANGED objectVars

\* visitCallExpr: fn.call(this, args) of the native clock
ClockCall ==
    /\ Running /\ ctl.m = "invoke"
    /\ ctl.callee.k = "native"
    /\ Len(ctl.args) = 0
    /\ \E now \in 0..MaxClock : ctl' = Val(Num(now))
    /\ UNCHANGED << envs, funcs, environment, kont, out >>
    /\ UNCHANGED driverVars
    /\ UNCHANGED frontVars
    /\ UNCHANGED objectVars

\* a Function.call whose new environment encloses the caller's environment
FunctionCallInCallerEnvironment ==
    /\ Running /\ ctl.m = "invoke"
    /\ ctl.callee.k = "fn"
    /\ LET fn == funcs[ctl.callee.id]
           env == Len(envs) + 1
       IN  /\ Len(ctl.args) = Len(fn.declaration.params)
           /\ envs' = DefineParams(Append(envs, NewEnvironment(environment)), env,
                                   fn.declaration.params, ctl.args)
           /\ EnterBlock(fn.declaration.body, env, Push([f |-> "call"]))
    /\ UNCHANGED << funcs, out >>
    /\ UNCHANGED driverVars
    /\ UNCHANGED frontVars
    /\ UNCHANGED objectVars

\* Function.call up to the call of executeBlock: the new environment encloses
\* the closure and holds the parameters
FunctionCall ==
    /\ Running /\ ctl.m = "invoke"
    /\ ctl.callee.k = "fn"
    /\ LET fn == funcs[ctl.callee.id]
           env == Len(envs) + 1
       IN  /\ Len(ctl.args) = Len(fn.declaration.params)
           /\ envs' = DefineParams(Append(envs, NewEnvironment(fn.closure)), env,
                                   fn.declaration.params, ctl.args)
           /\ EnterBlock(fn.declaration.body, env, Push([f |-> "call"]))
    /\ UNCHANGED << funcs, out >>
    /\ UNCHANGED driverVars
    /\ UNCHANGED frontVars
    /\ UNCHANGED objectVars

\* a Function.call whose catch swallows whatever was thrown
FunctionCallReturnCatchAll ==
    /\ \/ /\ DoneAt("call")
          /\ ctl' = Val(Nil)
       \/ /\ ThrowAt("call")
          /\ ctl' = IF ctl.x.k = "Return" THEN Val(ctl.x.value) ELSE Val(Nil)
    /\ kont' = Pop
    /\ UNCHANGED << envs, funcs, environment, out >>
    /\ UNCHANGED driverVars
    /\ UNCHANGED frontVars
    /\ UNCHANGED objectVars

\* Function.call: executeBlock returned (return null), or threw (a Return is
\* caught and its value returned, anything else is thrown again)
FunctionCallReturn ==
    /\ \/ /\ DoneAt("call")
          /\ ctl' = Val(Nil)
       \/ /\ ThrowAt("call")
          /\ ctl' = IF ctl.x.k = "Return" THEN Val(ctl.x.value) ELSE ctl
    /\ kont' = Pop
    /\ UNCHANGED << envs, funcs, environment, out >>
    /\ UNCHANGED driverVars
    /\ UNCHANGED frontVars
    /\ UNCHANGED objectVars

\* the Map of methods that visitClassStmt builds, a later method of the same
\* name replacing an earlier one; the Function object of methods[i] is
\* funcs[base + i]
MethodMap(methods, base) ==
    [name \in {methods[i].name : i \in DOMAIN methods} |->
        base + (CHOOSE i \in DOMAIN methods :
                  /\ methods[i].name = name
                  /\ \A j \in DOMAIN methods : methods[j].name = name => j <= i)]

\* visitClassStmt: define the name, make a Function of every method with the
\* current environment as closure, make the Class and assign it to the name
visitClassStmt ==
    /\ AtExec("Class")
    /\ LET klass == Len(classes) + 1
           defined == EnvDefine(envs, environment, ctl.s.name, Nil)
       IN  /\ funcs' = funcs \o [i \in DOMAIN ctl.s.methods |->
                                   [declaration |-> ctl.s.methods[i],
                                    closure |-> environment]]
           /\ classes' = Append(classes, NewClass(ctl.s.name,
                                    MethodMap(ctl.s.methods, Len(funcs)), Undefined))
           /\ envs' = EnvAssign(defined, environment, ctl.s.name, Klass(klass)).heap
    /\ ctl' = Done
    /\ UNCHANGED << environment, kont, out, instances >>
    /\ UNCHANGED driverVars
    /\ UNCHANGED frontVars

\* visitGetExpr: evaluate expr.object
visitGetExpr ==
    /\ AtEval("Get")
    /\ kont' = Push([f |-> "get", name |-> ctl.e.name])
    /\ ctl' = Eval(ctl.e.object)
    /\ UNCHANGED << envs, funcs, environment, out >>
    /\ UNCHANGED objectVars
    /\ UNCHANGED driverVars
    /\ UNCHANGED frontVars

\* visitGetExpr: object.get(expr.name) of an Instance, a RuntimeError otherwise
visitGetExprGet ==
    /\ ValueAt("get")
    /\ kont' = Pop
    /\ IF ctl.v.k = "instance"
       THEN LET r == InstanceGet(instances, classes, envs, funcs, ctl.v.id, Top.name)
            IN  IF r.ok
                THEN envs' = r.envs /\ funcs' = r.funcs /\ ctl' = Val(r.value)
                ELSE /\ ctl' = Throw(RuntimeError(r.message))
                     /\ UNCHANGED << envs, funcs >>
       ELSE /\ ctl' = Throw(RuntimeError("Only instances have properties."))
            /\ UNCHANGED << envs, funcs >>
    /\ UNCHANGED << environment, out >>
    /\ UNCHANGED objectVars
    /\ UNCHANGED driverVars
    /\ UNCHANGED frontVars

\* visitSetExpr: evaluate expr.object
visitSetExpr ==
    /\ AtEval("Set")
    /\ kont' = Push([f |-> "set", expr |-> ctl.e])
    /\ ctl' = Eval(ctl.e.object)
    /\ UNCHANGED << envs, funcs, environment, out >>
    /\ UNCHANGED objectVars
    /\ UNCHANGED driverVars
    /\ UNCHANGED frontVars

\* visitSetExpr: the object must be an Instance; evaluate expr.value
visitSetExprValue ==
    /\ ValueAt("set")
    /\ IF ctl.v.k = "instance"
       THEN /\ kont' = << [f |-> "setValue", name |-> Top.expr.name,
                           object |-> ctl.v.id] >> \o Pop
            /\ ctl' = Eval(Top.expr.value)
       ELSE /\ kont' = Pop
            /\ ctl' = Throw(RuntimeError("Only instances have fields."))
    /\ UNCHANGED << envs, funcs, environment, out >>
    /\ UNCHANGED objectVars
    /\ UNCHANGED driverVars
    /\ UNCHANGED frontVars

\* visitSetExpr: object.set(expr.name, value); return value
visitSetExprSet ==
    /\ ValueAt("setValue")
    /\ kont' = Pop
    /\ instances' = InstanceSet(instances, Top.object, Top.name, ctl.v)
    /\ UNCHANGED << envs, funcs, environment, ctl, out, classes >>
    /\ UNCHANGED driverVars
    /\ UNCHANGED frontVars

\* visitThisExpr: the variable `this`
visitThisExpr ==
    /\ AtEval("This")
    /\ LET r == EnvGet(envs, environment, "this")
       IN  ctl' = IF r.ok THEN Val(r.value) ELSE Throw(RuntimeError(r.message))
    /\ UNCHANGED << envs, funcs, environment, kont, out >>
    /\ UNCHANGED objectVars
    /\ UNCHANGED driverVars
    /\ UNCHANGED frontVars

\* Class.call: new Instance(this), and the call of init bound to the instance
\* up to the call of executeBlock when the class has an init
ClassCall ==
    /\ Running /\ ctl.m = "invoke"
    /\ ctl.callee.k = "class"
    /\ Len(ctl.args) = ClassArity(classes, funcs, ctl.callee.id)
    /\ LET instance == Len(instances) + 1
           init == findMethod(classes, ctl.callee.id, "init")
       IN  /\ instances' = Append(instances, NewInstance(ctl.callee.id))
           /\ IF init = Undefined
              THEN /\ ctl' = Val(Instance(instance))
                   /\ UNCHANGED << envs, funcs, environment, kont >>
              ELSE LET b == Bind(envs, funcs, init, Instance(instance))
                       fn == b.funcs[Len(b.funcs)]
                       env == Len(b.envs) + 1
                   IN  /\ funcs' = b.funcs
                       /\ envs' = DefineParams(
                              Append(b.envs, NewEnvironment(fn.closure)), env,
                              fn.declaration.params, ctl.args)
                       /\ EnterBlock(fn.declaration.body, env,
                              << [f |-> "call"],
                                 [f |-> "construct", instance |-> instance] >> \o kont)
    /\ UNCHANGED << out, classes >>
    /\ UNCHANGED driverVars
    /\ UNCHANGED frontVars

\* Class.call: init returned; return instance
ClassCallReturn ==
    /\ ValueAt("construct")
    /\ ctl' = Val(Instance(Top.instance))
    /\ kont' = Pop
    /\ UNCHANGED << envs, funcs, environment, out >>
    /\ UNCHANGED objectVars
    /\ UNCHANGED driverVars
    /\ UNCHANGED frontVars

\* the frames without try: a thrown value passes through them
CatchingFrames == {"interpret", "executeBlock", "call"}

Propagate ==
    /\ Running /\ ctl.m = "throw"
    /\ kont # << >>
    /\ Top.f \notin CatchingFrames
    /\ kont' = Pop
    /\ UNCHANGED << envs, funcs, environment, ctl, out >>
    /\ UNCHANGED driverVars
    /\ UNCHANGED frontVars
    /\ UNCHANGED objectVars

Next ==
    \/ Main \/ ReadLine \/ ReadEOF
    \/ RunScan \/ RunParse \/ RunSyntaxGate \/ RunResolve \/ RunResolveGate
    \/ PromptAgain \/ RunFileExit
    \/ Interpret \/ InterpretLoop \/ InterpretCatch
    \/ visitVarStmt \/ visitVarStmtDefine
    \/ visitExpressionStmt \/ visitExpressionStmtDone
    \/ visitFunctionStmt
    \/ visitPrintStmt \/ visitPrintStmtLog
    \/ visitReturnStmt \/ visitReturnStmtThrow
    \/ visitBlockStmt \/ executeBlockLoop \/ executeBlockFinally
    \/ visitIfStmt \/ visitIfStmtBranch
    \/ visitWhileStmt \/ visitWhileStmtTest
    \/ visitLiteralExpr \/ visitVariableExpr
    \/ visitAssignExpr \/ visitAssignExprAssign
    \/ visitGroupingExpr
    \/ visitBinaryExpr \/ visitBinaryExprRight \/ visitBinaryExprApply
    \/ visitLogicalExpr \/ visitLogicalExprLeft
    \/ visitUnaryExpr \/ visitUnaryExprApply
    \/ visitCallExpr \/ visitCallExprArgs \/ visitCallExprReject
    \/ ClockCall \/ FunctionCall \/ FunctionCallReturn
    \/ visitClassStmt \/ visitGetExpr \/ visitGetExprGet
    \/ visitSetExpr \/ visitSetExprValue \/ visitSetExprSet \/ visitThisExpr
    \/ ClassCall \/ ClassCallReturn
    \/ Propagate

Spec == Init /\ [][Next]_vars

(***************************************************************************)
(* Specification ClassChains: Class objects with superclasses are made by  *)
(* the constructor of src/src/Class.ts and asked for their methods and     *)
(* their arity.  kont holds the call, ctl what it returned.                *)
(***************************************************************************)
\* the most Class objects made
MaxClasses == 3

\* the names of the methods of the classes
MethodNames == {"init", "m"}

\* the parameter lists of init
InitParams == {<< >>, << "a" >>}

Returned(value) == [m |-> "returned", value |-> value]

\* the method declarations with these names, init with these parameters
SetToMethods(names, params) ==
    (IF "init" \in names THEN << FunctionStmt("init", params, << >>) >> ELSE << >>)
    \o (IF "m" \in names THEN << FunctionStmt("m", << >>, << >>) >> ELSE << >>)

\* new Class(name, methods, superclass): the superclass is a Class made
\* before, or undefined; each method is a new Function
NewClassObject ==
    /\ pc = "main"
    /\ Len(classes) < MaxClasses
    /\ \E superclass \in {Undefined} \cup (1..Len(classes)),
          names \in SUBSET MethodNames, params \in InitParams :
         /\ "init" \notin names => params = << >>
         /\ LET methods == SetToMethods(names, params)
            IN  /\ funcs' = funcs \o [i \in DOMAIN methods |->
                                        [declaration |-> methods[i],
                                         closure |-> GlobalsId]]
                /\ classes' = Append(classes,
                                  NewClass("K", MethodMap(methods, Len(funcs)),
                                           superclass))
    /\ kont' = << >>
    /\ ctl' = Idle
    /\ UNCHANGED << envs, environment, out, instances >>
    /\ UNCHANGED driverVars
    /\ UNCHANGED frontVars

\* klass.findMethod(name)
FindMethodCall ==
    /\ pc = "main"
    /\ \E c \in 1..Len(classes), name \in MethodNames :
         /\ kont' = << [f |-> "findMethod", class |-> c, name |-> name] >>
         /\ ctl' = Returned(findMethod(classes, c, name))
    /\ UNCHANGED << envs, funcs, environment, out >>
    /\ UNCHANGED objectVars
    /\ UNCHANGED driverVars
    /\ UNCHANGED frontVars

\* klass.arity
ArityCall ==
    /\ pc = "main"
    /\ \E c \in 1..Len(classes) :
         /\ kont' = << [f |-> "arity", class |-> c] >>
         /\ ctl' = Returned(ClassArity(classes, funcs, c))
    /\ UNCHANGED << envs, funcs, environment, out >>
    /\ UNCHANGED objectVars
    /\ UNCHANGED driverVars
    /\ UNCHANGED frontVars

ChainNext == NewClassObject \/ FindMethodCall \/ ArityCall

ClassChains == Init /\ [][ChainNext]_vars

(***************************************************************************)
(* Sources of FrontEnd, as characters.                                      *)
(***************************************************************************)
\* the longest source of ShortSources
MaxSourceLen == 3

ScanAlphabet == {"a", "1", ".", "=", "\"", "\n", "/", "@", " "}

RECURSIVE SourcesOfLength(_)
\* the sources of n characters of ScanAlphabet
SourcesOfLength(n) ==
    IF n = 0 THEN {<< >>}
    ELSE {Append(s, c) : s \in SourcesOfLength(n - 1), c \in ScanAlphabet}

\* every source of at most MaxSourceLen characters of ScanAlphabet
ShortSources == UNION {SourcesOfLength(n) : n \in 0..MaxSourceLen}

\* and class else false for fun if nil or print return super this true var while
TextKeywords ==
    << "a", "n", "d", " ", "c", "l", "a", "s", "s", " ", "e", "l", "s", "e",
       " ", "f", "a", "l", "s", "e", " ", "f", "o", "r", " ", "f", "u", "n",
       " ", "i", "f", " ", "n", "i", "l", " ", "o", "r", " ", "p", "r", "i",
       "n", "t", " ", "r", "e", "t", "u", "r", "n", " ", "s", "u", "p", "e",
       "r", " ", "t", "h", "i", "s", " ", "t", "r", "u", "e", " ", "v", "a",
       "r", " ", "w", "h", "i", "l", "e" >>

\* a1 _ orchid classy While
TextIdentifiers ==
    << "a", "1", " ", "_", " ", "o", "r", "c", "h", "i", "d", " ", "c", "l",
       "a", "s", "s", "y", " ", "W", "h", "i", "l", "e" >>

\* toString
TextToString ==
    << "t", "o", "S", "t", "r", "i", "n", "g" >>

\* var constructor = 1;
TextConstructor ==
    << "v", "a", "r", " ", "c", "o", "n", "s", "t", "r", "u", "c", "t", "o",
       "r", " ", "=", " ", "1", ";" >>

\* // one\n"two\nthree" @ 4 // five\n"six\n
TextLines ==
    << "/", "/", " ", "o", "n", "e", "\n", "\"", "t", "w", "o", "\n", "t",
       "h", "r", "e", "e", "\"", " ", "@", " ", "4", " ", "/", "/", " ", "f",
       "i", "v", "e", "\n", "\"", "s", "i", "x", "\n" >>

\* 1 + ; a = 2; print 3;
TextRecover ==
    << "1", " ", "+", " ", ";", " ", "a", " ", "=", " ", "2", ";", " ", "p",
       "r", "i", "n", "t", " ", "3", ";" >>

\* var ; print 1;
TextRecoverVar ==
    << "v", "a", "r", " ", ";", " ", "p", "r", "i", "n", "t", " ", "1", ";" >>

\* print 1 print 2; print 3;
TextRecoverSkip ==
    << "p", "r", "i", "n", "t", " ", "1", " ", "p", "r", "i", "n", "t", " ",
       "2", ";", " ", "p", "r", "i", "n", "t", " ", "3", ";" >>

\* { 1 + ; print 2; } print 3;
TextRecoverBlock ==
    << "{", " ", "1", " ", "+", " ", ";", " ", "p", "r", "i", "n", "t", " ",
       "2", ";", " ", "}", " ", "p", "r", "i", "n", "t", " ", "3", ";" >>

\* a b c var d; print 4;
TextRecoverKeyword ==
    << "a", " ", "b", " ", "c", " ", "v", "a", "r", " ", "d", ";", " ", "p",
       "r", "i", "n", "t", " ", "4", ";" >>

\* print 1; 2 +
TextRecoverEnd ==
    << "p", "r", "i", "n", "t", " ", "1", ";", " ", "2", " ", "+" >>

\* { var a = a; }
TextOwnInit ==
    << "{", " ", "v", "a", "r", " ", "a", " ", "=", " ", "a", ";", " ", "}" >>

\* var a = a;
TextOwnInitGlobal ==
    << "v", "a", "r", " ", "a", " ", "=", " ", "a", ";" >>

\* var a = 1; { var a = a; }
TextOwnInitShadow ==
    << "v", "a", "r", " ", "a", " ", "=", " ", "1", ";", " ", "{", " ", "v",
       "a", "r", " ", "a", " ", "=", " ", "a", ";", " ", "}" >>

\* { var a = 1; { var b = a; } }
TextOwnInitOuter ==
    << "{", " ", "v", "a", "r", " ", "a", " ", "=", " ", "1", ";", " ", "{",
       " ", "v", "a", "r", " ", "b", " ", "=", " ", "a", ";", " ", "}", " ",
       "}" >>

\* { var a = a + (a); }
TextOwnInitTwice ==
    << "{", " ", "v", "a", "r", " ", "a", " ", "=", " ", "a", " ", "+", " ",
       "(", "a", ")", ";", " ", "}" >>

\* fun f() { var x = x + 1; }
TextOwnInitFunction ==
    << "f", "u", "n", " ", "f", "(", ")", " ", "{", " ", "v", "a", "r", " ",
       "x", " ", "=", " ", "x", " ", "+", " ", "1", ";", " ", "}" >>

\* { var a = 1; var b = a; print b; }
TextOwnInitOther ==
    << "{", " ", "v", "a", "r", " ", "a", " ", "=", " ", "1", ";", " ", "v",
       "a", "r", " ", "b", " ", "=", " ", "a", ";", " ", "p", "r", "i", "n",
       "t", " ", "b", ";", " ", "}" >>

\* { var a = 1; var a = 2; }
TextRedeclare ==
    << "{", " ", "v", "a", "r", " ", "a", " ", "=", " ", "1", ";", " ", "v",
       "a", "r", " ", "a", " ", "=", " ", "2", ";", " ", "}" >>

\* var a = 1; var a = 2; fun a() {} class a {}
TextRedeclareGlobal ==
    << "v", "a", "r", " ", "a", " ", "=", " ", "1", ";", " ", "v", "a", "r",
       " ", "a", " ", "=", " ", "2", ";", " ", "f", "u", "n", " ", "a", "(",
       ")", " ", "{", "}", " ", "c", "l", "a", "s", "s", " ", "a", " ", "{",
       "}" >>

\* { var a = 1; { var a = 2; } }
TextRedeclareShadow ==
    << "{", " ", "v", "a", "r", " ", "a", " ", "=", " ", "1", ";", " ", "{",
       " ", "v", "a", "r", " ", "a", " ", "=", " ", "2", ";", " ", "}", " ",
       "}" >>

\* fun f(a, a) { }
TextRedeclareParams ==
    << "f", "u", "n", " ", "f", "(", "a", ",", " ", "a", ")", " ", "{", " ",
       "}" >>

\* fun f(a) { var a = 1; }
TextRedeclareParamLocal ==
    << "f", "u", "n", " ", "f", "(", "a", ")", " ", "{", " ", "v", "a", "r",
       " ", "a", " ", "=", " ", "1", ";", " ", "}" >>

\* { fun f() {} var f = 1; }
TextRedeclareFunction ==
    << "{", " ", "f", "u", "n", " ", "f", "(", ")", " ", "{", "}", " ", "v",
       "a", "r", " ", "f", " ", "=", " ", "1", ";", " ", "}" >>

\* { class A {} class A {} }
TextRedeclareClass ==
    << "{", " ", "c", "l", "a", "s", "s", " ", "A", " ", "{", "}", " ", "c",
       "l", "a", "s", "s", " ", "A", " ", "{", "}", " ", "}" >>

\* class A { init() { return; } }
TextInitReturnBare ==
    << "c", "l", "a", "s", "s", " ", "A", " ", "{", " ", "i", "n", "i", "t",
       "(", ")", " ", "{", " ", "r", "e", "t", "u", "r", "n", ";", " ", "}",
       " ", "}" >>

\* class A { init() { return nil; } }
TextInitReturnNil ==
    << "c", "l", "a", "s", "s", " ", "A", " ", "{", " ", "i", "n", "i", "t",
       "(", ")", " ", "{", " ", "r", "e", "t", "u", "r", "n", " ", "n", "i",
       "l", ";", " ", "}", " ", "}" >>

\* class A { init() { return 1; } }
TextInitReturnNumber ==
    << "c", "l", "a", "s", "s", " ", "A", " ", "{", " ", "i", "n", "i", "t",
       "(", ")", " ", "{", " ", "r", "e", "t", "u", "r", "n", " ", "1", ";",
       " ", "}", " ", "}" >>

\* class A { init() { return this; } }
TextInitReturnThis ==
    << "c", "l", "a", "s", "s", " ", "A", " ", "{", " ", "i", "n", "i", "t",
       "(", ")", " ", "{", " ", "r", "e", "t", "u", "r", "n", " ", "t", "h",
       "i", "s", ";", " ", "}", " ", "}" >>

\* class A { init() { return a; } }
TextInitReturnVariable ==
    << "c", "l", "a", "s", "s", " ", "A", " ", "{", " ", "i", "n", "i", "t",
       "(", ")", " ", "{", " ", "r", "e", "t", "u", "r", "n", " ", "a", ";",
       " ", "}", " ", "}" >>

\* class A { init() { return 1 + 2; } }
TextInitReturnBinary ==
    << "c", "l", "a", "s", "s", " ", "A", " ", "{", " ", "i", "n", "i", "t",
       "(", ")", " ", "{", " ", "r", "e", "t", "u", "r", "n", " ", "1", " ",
       "+", " ", "2", ";", " ", "}", " ", "}" >>

\* class A { init() { return f(); } }
TextInitReturnCall ==
    << "c", "l", "a", "s", "s", " ", "A", " ", "{", " ", "i", "n", "i", "t",
       "(", ")", " ", "{", " ", "r", "e", "t", "u", "r", "n", " ", "f", "(",
       ")", ";", " ", "}", " ", "}" >>

\* a
TextTargetVariable ==
    << "a" >>

\* a.b
TextTargetGet ==
    << "a", ".", "b" >>

\* f(1).c
TextTargetCallGet ==
    << "f", "(", "1", ")", ".", "c" >>

\* 1
TextTargetNumber ==
    << "1" >>

\* (a)
TextTargetGrouping ==
    << "(", "a", ")" >>

\* a + b
TextTargetBinary ==
    << "a", " ", "+", " ", "b" >>

\* f()
TextTargetCall ==
    << "f", "(", ")" >>

\* -a
TextTargetUnary ==
    << "-", "a" >>

\* 2
TextValueNumber ==
    << "2" >>

\* b = 3
TextValueAssign ==
    << "b", " ", "=", " ", "3" >>

\* 4 = c.d
TextValueInvalid ==
    << "4", " ", "=", " ", "c", ".", "d" >>

\* the left-hand sides and the right-hand sides of the assignments
AssignTargets ==
    {TextTargetVariable, TextTargetGet, TextTargetCallGet, TextTargetNumber,
     TextTargetGrouping, TextTargetBinary, TextTargetCall, TextTargetUnary}
AssignValues == {TextValueNumber, TextValueAssign, TextValueInvalid}

\* target = value; print 9;
AssignmentSource(target, value) ==
    target \o << " ", "=", " " >> \o value
           \o << ";", " ", "p", "r", "i", "n", "t", " ", "9", ";" >>

Assignments == {AssignmentSource(target, value) : target \in AssignTargets,
                                                  value \in AssignValues}

Families == Assignments

Programs ==
    {TextKeywords, TextIdentifiers, TextToString, TextConstructor,
     TextLines, TextRecover, TextRecoverVar, TextRecoverSkip,
     TextRecoverBlock, TextRecoverKeyword, TextRecoverEnd, TextOwnInit,
     TextOwnInitGlobal, TextOwnInitShadow, TextOwnInitOuter,
     TextOwnInitTwice, TextOwnInitFunction, TextOwnInitOther,
     TextRedeclare, TextRedeclareGlobal, TextRedeclareShadow,
     TextRedeclareParams, TextRedeclareParamLocal, TextRedeclareFunction,
     TextRedeclareClass, TextInitReturnBare, TextInitReturnNil,
     TextInitReturnNumber, TextInitReturnThis, TextInitReturnVariable,
     TextInitReturnBinary, TextInitReturnCall}

FrontSources == ShortSources \cup Programs \cup Families

(***************************************************************************)
(* The front end of run(source): src/src/Lox.ts, lines 48-62.              *)
(* Specification FrontEnd follows one call of run through the scanner      *)
(* (one lexeme per step), the parser (one declaration of the program per   *)
(* step) and the resolver, for the sources of FrontSources.  Of the        *)
(* driver's state, hadError and statements take part.                      *)
(***************************************************************************)
\* whether a component has called Lox.error in a step
Reported(before, after) == Len(after.errors) > Len(before.errors)

FrontInit ==
    /\ LoxInit
    /\ stage = "scan"
    /\ \E source \in FrontSources : scanner = NewScanner(source)
    /\ parser = NewParser(<< >>)
    /\ resolver = NewResolver

\* scanTokens: one turn of the loop
ScanStep ==
    /\ stage = "scan"
    /\ ~ScannerDone(scanner)
    /\ scanner' = ScanNext(scanner)
    /\ hadError' = (hadError \/ Reported(scanner, scanner'))
    /\ UNCHANGED << stage, parser, resolver, statements >>
    /\ UNCHANGED << pc, mode, hadRuntimeError, exitCode, src, lines, ran, interpreted >>
    /\ UNCHANGED interpVars

\* scanTokens returns; new Parser(tokens)
ScanEnd ==
    /\ stage = "scan"
    /\ ScannerDone(scanner)
    /\ scanner' = ScanEOF(scanner)
    /\ parser' = NewParser(scanner'.tokens)
    /\ stage' = "parse"
    /\ UNCHANGED << resolver, hadError, statements >>
    /\ UNCHANGED << pc, mode, hadRuntimeError, exitCode, src, lines, ran, interpreted >>
    /\ UNCHANGED interpVars

\* parse: one turn of the loop
ParseStep ==
    /\ stage = "parse"
    /\ ~ParserDone(parser)
    /\ LET n == ParseNext(parser, statements)
       IN  /\ parser' = n.p
           /\ statements' = n.statements
    /\ hadError' = (hadError \/ Reported(parser, parser'))
    /\ UNCHANGED << stage, scanner, resolver >>
    /\ UNCHANGED << pc, mode, hadRuntimeError, exitCode, src, lines, ran, interpreted >>
    /\ UNCHANGED interpVars

\* parse returns; run: if (hadError) return
ParseEnd ==
    /\ stage = "parse"
    /\ ParserDone(parser)
    /\ stage' = IF hadError THEN "end" ELSE "resolve"
    /\ UNCHANGED << scanner, parser, resolver, hadError, statements >>
    /\ UNCHANGED << pc, mode, hadRuntimeError, exitCode, src, lines, ran, interpreted >>
    /\ UNCHANGED interpVars

\* run: resolver.resolve(...statements)
ResolveStep ==
    /\ stage = "resolve"
    /\ resolver' = ResolveAll(NewResolver, statements)
    /\ hadError' = (hadError \/ Reported(resolver, resolver'))
    /\ stage' = "end"
    /\ UNCHANGED << scanner, parser, statements >>
    /\ UNCHANGED << pc, mode, hadRuntimeError, exitCode, src, lines, ran, interpreted >>
    /\ UNCHANGED interpVars

FrontNext == ScanStep \/ ScanEnd \/ ParseStep \/ ParseEnd \/ ResolveStep

FrontEnd == FrontInit /\ [][FrontNext]_vars

(***************************************************************************)
(* Properties.                                                             *)
(***************************************************************************)
\* the indexes of the sources in Sources
IxStatic == CHOOSE i \in DOMAIN ConsoleSources : ConsoleSources[i] = SrcStatic
IxReturn == CHOOSE i \in DOMAIN ConsoleSources : ConsoleSources[i] = SrcReturn
IxError == CHOOSE i \in DOMAIN ConsoleSources : ConsoleSources[i] = SrcError
IxRead == CHOOSE i \in DOMAIN ConsoleSources : ConsoleSources[i] = SrcRead
IxTopReturn == CHOOSE i \in DOMAIN ConsoleSources : ConsoleSources[i] = SrcTopReturn
IxParseError == CHOOSE i \in DOMAIN ConsoleSources : ConsoleSources[i] = SrcParseError

Globals == envs[GlobalsId].values
ReturnInFlight == ctl.m = "throw" /\ ctl.x.k = "Return"
RuntimeErrorInFlight == ctl.m = "throw" /\ ctl.x.k = "RuntimeError"
CallFrames(k) == {i \in 1..Len(k) : k[i].f = "call"}
\* the errors the scanner and the parser report on source i
SyntaxErrors(i) == Sources[i].scanErrors + Sources[i].parseErrors
\* the errors the resolver reports on the statements of source i
ResolutionErrors(i) == ResolveAll(NewResolver, Sources[i].stmts).errors

\* C1: every call of executeBlock leaves the current environment as it found
\* it, whether it ends normally, by a Return or by a RuntimeError: the frame
\* records the environment current at its entry, and the step that leaves the
\* frame restores exactly that one.  Outside interpret the current environment
\* is globals.
C1_BlockDiscipline ==
    /\ [](ctl.m = "idle" => environment = GlobalsId)
    /\ [][ /\ (/\ Len(kont') > Len(kont)
               /\ Head(kont').f = "executeBlock")
              => Head(kont').prev = environment
           /\ (/\ kont # << >>
               /\ Head(kont).f = "executeBlock"
               /\ kont' = Tail(kont))
              => environment' = Head(kont).prev ]_vars

\* a RuntimeError thrown inside a function inside a block has been caught by
\* interpret, and the current environment is globals again
C1_Witness ==
    /\ pc = "ret"
    /\ src = IxError
    /\ hadRuntimeError
    /\ Len(envs) >= 3
    /\ environment = GlobalsId

\* C2: static scoping: both calls of showA print the global a
C2_StaticScoping ==
    (src = IxStatic /\ pc = "ret")
        => /\ Len(out) >= 2
           /\ out[Len(out) - 1] = "global"
           /\ out[Len(out)] = "global"

\* C3: a Return in flight always has a user-function invocation around it, it
\* passes through the frames that are no Function.call unchanged, the first
\* Function.call it meets catches it and returns its value, and no exception
\* ever leaves interpret uncaught
C3_ReturnConfined ==
    /\ [](ReturnInFlight => CallFrames(kont) # {})
    /\ [](exitCode # 1)
    /\ [][ ReturnInFlight =>
             \/ /\ Head(kont).f # "call"
                /\ kont' = Tail(kont)
                /\ ctl' = ctl
             \/ /\ Head(kont).f = "call"
                /\ kont' = Tail(kont)
                /\ ctl' = Val(ctl.x.value) ]_vars

\* the Return of the inner of two nested invocations reaches its Function.call
C3_Witness ==
    /\ ReturnInFlight
    /\ Head(kont).f = "call"
    /\ Cardinality(CallFrames(kont)) = 2

\* C4: a RuntimeError in flight passes through every frame but interpret
\* unchanged (Function.call does not catch it); interpret catches it, sets
\* hadRuntimeError, and returns to run without executing another statement;
\* the process goes on
C4_RuntimeErrorUnwinds ==
    /\ [](pc # "interpreting" => ctl = Idle /\ kont = << >>)
    /\ [][ RuntimeErrorInFlight =>
             \/ /\ Head(kont).f # "interpret"
                /\ kont' = Tail(kont)
                /\ ctl' = ctl
                /\ UNCHANGED << pc, hadRuntimeError, exitCode, envs, out >>
             \/ /\ Head(kont).f = "interpret"
                /\ Len(kont) = 1
                /\ pc' = "ret"
                /\ hadRuntimeError'
                /\ exitCode' = -1
                /\ UNCHANGED << envs, out >> ]_vars

\* the run of SrcError has ended: b = 2 was executed inside h, the error was
\* caught, the third statement b = 3 was not executed
C4_Witness ==
    /\ pc = "ret"
    /\ src = IxError
    /\ hadRuntimeError
    /\ exitCode = -1
    /\ "b" \in DOMAIN Globals
    /\ Globals["b"] = Num(2)

\* C5: the resolver is reached only when scanner and parser reported nothing,
\* the interpreter only when the resolver reported nothing either
C5_PipelineGating ==
    /\ pc \in {"resolve", "resolveGate", "interpret", "interpreting"}
          => SyntaxErrors(src) = 0
    /\ pc \in {"interpret", "interpreting"} => ResolutionErrors(src) = << >>
    /\ (src # 0 /\ (SyntaxErrors(src) > 0 \/ ResolutionErrors(src) # << >>))
          => ~interpreted

\* run has returned on a source with a resolution error, nothing was interpreted
C5_Witness ==
    /\ pc = "ret"
    /\ src = IxTopReturn
    /\ hadError
    /\ ~interpreted
    /\ "d" \notin DOMAIN Globals

\* C6: in REPL mode every run starts with hadError false, and a line without
\* compile or resolution error is interpreted
C6_HadErrorPerLine ==
    /\ (mode = "repl" /\ pc = "scan") => ~hadError
    /\ (mode = "repl" /\ pc = "ret" /\ SyntaxErrors(src) = 0
          /\ ResolutionErrors(src) = << >>) => interpreted

\* an error-free line was interpreted after a line with a parse error
C6_Witness ==
    /\ mode = "repl"
    /\ pc = "ret"
    /\ lines = << IxParseError, IxRead >>
    /\ interpreted

\* C7 as stated: in REPL mode hadRuntimeError is false when a line is run
C7_RuntimeErrorPerLine == (mode = "repl" /\ pc = "scan") => ~hadRuntimeError

\* C7 amended: hadRuntimeError is never cleared: it becomes true when
\* interpret catches a RuntimeError, and once a line raised a runtime error it
\* is true when every later line is run
C7_RuntimeErrorSticky ==
    [][ /\ hadRuntimeError => hadRuntimeError'
        /\ (~hadRuntimeError /\ hadRuntimeError')
              => (RuntimeErrorInFlight /\ Head(kont).f = "interpret") ]_vars

\* a second line is run while hadRuntimeError is still set by the first
C7_Witness ==
    /\ mode = "repl"
    /\ pc = "scan"
    /\ lines = << IxError, IxStatic >>
    /\ hadRuntimeError

\* C8: globals change only while the interpreter executes statements, never
\* between the lines, on a compile error or while a RuntimeError unwinds, and
\* no global binding ever disappears
C8_GlobalsPersist ==
    [][ /\ (pc # "interpreting" \/ ctl.m = "throw") => Globals' = Globals
        /\ \A n \in DOMAIN Globals : n \in DOMAIN Globals' ]_vars

\* the line after the one that ended in a runtime error prints the value that
\* line had given b before the error
C8_Witness ==
    /\ pc = "ret"
    /\ lines = << IxError, IxRead >>
    /\ out = << "2" >>

\* C9: every line the console supplied was passed to run
C9_EveryLineRun ==
    (mode = "repl" /\ pc \in {"prompt", "exited"}) => ran = Len(lines)

\* C10: in file mode the process ends with 65 after a scanner, parser or
\* resolver error, else with 70 after a runtime error, else with 0, and the
\* two flags are never both set
C10_FileExitStatus ==
    mode = "file" =>
        /\ ~(hadError /\ hadRuntimeError)
        /\ pc = "exited" =>
             exitCode = IF SyntaxErrors(src) > 0 \/ ResolutionErrors(src) # << >> THEN 65
                        ELSE IF hadRuntimeError THEN 70
                        ELSE 0

\* a file whose run raised a runtime error has ended with status 70
C10_Witness ==
    /\ mode = "file"
    /\ pc = "exited"
    /\ src = IxError
    /\ exitCode = 70

(***************************************************************************)
(* Closures.                                                               *)
(***************************************************************************)
IxClosure == CHOOSE i \in DOMAIN ConsoleSources : ConsoleSources[i] = SrcClosure

\* the last n lines written by console.log
LastOut(n) == SubSeq(out, Len(out) - n + 1, Len(out))

\* C11: a function declaration stores the environment current at the
\* declaration as the closure of the new function; an invocation of a user
\* function continues in a fresh environment whose enclosing is the closure of
\* the callee, whatever the environment of the caller is; the counters
\* returned by two calls of mk count separately: 1, 2, 3 for the first, 1 for
\* the second
C11_ClosureCapture ==
    /\ [][ AtExec("Function") =>
             /\ Len(funcs') = Len(funcs) + 1
             /\ funcs'[Len(funcs')].closure = environment
             /\ \A f \in 1..Len(funcs) : funcs'[f] = funcs[f] ]_vars
    /\ [][ (Running /\ ctl.m = "invoke" /\ ctl.callee.k = "fn"
                /\ Len(ctl.args) = Arity(ctl.callee, funcs, classes)) =>
             /\ Len(envs') = Len(envs) + 1
             /\ environment' = Len(envs')
             /\ envs'[environment'].enclosing = funcs[ctl.callee.id].closure
             /\ \A e \in 1..Len(envs) : envs'[e] = envs[e] ]_vars
    /\ []((pc = "ret" /\ lines # << >> /\ lines[Len(lines)] = IxClosure) =>
             /\ Len(out) >= 4
             /\ LastOut(4) = << "1", "2", "3", "1" >>)

\* inc runs in an environment that encloses the one of its mk, called from
\* the globals
C11_Witness ==
    /\ Running /\ ctl.m = "exec" /\ ctl.s.t = "Return"
    /\ lines = << IxClosure >>
    /\ out = << "1", "2" >>
    /\ envs[environment].enclosing # GlobalsId
    /\ envs[environment].enclosing = funcs[2].closure
    /\ Cardinality(CallFrames(kont)) = 1

(***************************************************************************)
(* Scanner.                                                                *)
(***************************************************************************)
\* the number of newline characters among the first n characters of source
Newlines(source, n) == Cardinality({i \in 1..n : source[i] = "\n"})

\* the token that ends the token list
LastToken(sc) == sc.tokens[Len(sc.tokens)]

\* C12: when scanTokens has returned, the token list holds one EOF token, the
\* last one, and the line of that token is 1 plus the number of newline
\* characters of the source, wherever they are and whatever was reported;
\* before that the list holds no EOF token
C12_SingleEOF ==
    /\ stage = "scan" => \A i \in 1..Len(scanner.tokens) : scanner.tokens[i].type # "EOF"
    /\ stage \in {"parse", "resolve", "end"} =>
         /\ scanner.tokens # << >>
         /\ LastToken(scanner).type = "EOF"
         /\ LastToken(scanner).line = 1 + Newlines(scanner.source, Len(scanner.source))
         /\ \A i \in 1..(Len(scanner.tokens) - 1) : scanner.tokens[i].type # "EOF"
         /\ parser.tokens = scanner.tokens

\* the scan of a comment, a string of two lines, an unknown character and an
\* unterminated string of two lines has ended at line 5 with two errors
C12_Witness ==
    /\ stage = "parse"
    /\ scanner.source = TextLines
    /\ Len(scanner.errors) = 2
    /\ LastToken(scanner).type = "EOF"
    /\ LastToken(scanner).line = 5

\* C13: the token a turn of the scanner's loop adds carries the line on which
\* its lexeme starts: 1 plus the number of newline characters before the
\* lexeme
C13_TokenLineAtStart ==
    [][ (stage = "scan" /\ stage' = "scan" /\ Len(scanner'.tokens) > Len(scanner.tokens)) =>
          LastToken(scanner').line = 1 + Newlines(scanner.source, scanner'.start) ]_vars

\* source with every character c replaced by d
RECURSIVE Replace(_, _, _)
Replace(source, c, d) ==
    IF source = << >> THEN << >>
    ELSE << IF Head(source) = c THEN d ELSE Head(source) >> \o Replace(Tail(source), c, d)

\* the characters of source are outside string literals and comments
Plain(source) == \A i \in 1..Len(source) : source[i] \notin {"\"", "/"}

\* the offsets of the unknown character @ in source
Unknowns(source) == {i \in 1..Len(source) : source[i] = "@"}

\* the offset of the first quote of source
FirstQuote(source) == CHOOSE i \in 1..Len(source) :
    source[i] = "\"" /\ \A j \in 1..(i - 1) : source[j] # "\""

\* source has one quote and no comment before it: an unterminated string
Unterminated(source) ==
    /\ Cardinality({i \in 1..Len(source) : source[i] = "\""}) = 1
    /\ Plain(SubSeq(source, 1, FirstQuote(source) - 1))

\* tokens but for its last one
Front(tokens) == SubSeq(tokens, 1, Len(tokens) - 1)

\* C14: a turn of the scanner's loop that reports an error sets hadError and
\* adds no token, and the scan goes on with the character after the lexeme;
\* the tokens of a source with unknown characters outside strings and
\* comments are those of the source with a blank for each of them, in order
\* and ended by EOF, with one "Unexpected character." for each at its line;
\* the tokens of a source that ends in an unterminated string are those of
\* the text before the string and EOF, with one "Unterminated string."
C14_ScanErrorsNonFatal ==
    /\ [][ (stage = "scan" /\ Reported(scanner, scanner')) =>
             /\ scanner'.tokens = scanner.tokens
             /\ Len(scanner'.errors) = Len(scanner.errors) + 1
             /\ hadError'
             /\ stage' = "scan"
             /\ scanner'.current > scanner.current
             /\ (scanner'.errors[Len(scanner'.errors)].message = "Unexpected character."
                    => scanner'.current = scanner.current + 1) ]_vars
    /\ []((stage # "scan" /\ Plain(scanner.source)) =>
             /\ scanner.tokens
                    = scanTokens(NewScanner(Replace(scanner.source, "@", " "))).tokens
             /\ Len(scanner.errors) = Cardinality(Unknowns(scanner.source))
             /\ \A e \in 1..Len(scanner.errors) :
                    /\ scanner.errors[e].message = "Unexpected character."
                    /\ \E i \in Unknowns(scanner.source) :
                          /\ Cardinality({j \in Unknowns(scanner.source) : j <= i}) = e
                          /\ scanner.errors[e].line = 1 + Newlines(scanner.source, i)
             /\ Unknowns(scanner.source) # {} => hadError)
    /\ []((stage # "scan" /\ Unterminated(scanner.source)) =>
             /\ Front(scanner.tokens)
                    = Front(scanTokens(NewScanner(
                          SubSeq(scanner.source, 1, FirstQuote(scanner.source) - 1))).tokens)
             /\ LastToken(scanner).type = "EOF"
             /\ scanner.errors # << >>
             /\ scanner.errors[Len(scanner.errors)].message = "Unterminated string."
             /\ hadError)

\* an identifier has been scanned after an unknown character and before
\* another, each reported
C14_Witness ==
    /\ stage = "parse"
    /\ scanner.source = << "@", "a", "@" >>
    /\ Len(scanner.errors) = 2
    /\ Len(scanner.tokens) = 2
    /\ scanner.tokens[1].type = "IDENTIFIER"
    /\ hadError

\* lexeme is a word [A-Za-z_][A-Za-z0-9_]* of the source: the characters from
\* some offset a to some offset b
IsWord(lexeme) ==
    LET cs == scanner.source
    IN  \E a \in 0..Len(cs), b \in 1..Len(cs) :
            /\ a < b
            /\ Concat(SubSeq(cs, a + 1, b)) = lexeme
            /\ isAlpha(cs[a + 1])
            /\ \A i \in (a + 1)..b : isAlphaNumeric(cs[i])

\* C15: every token has a type of TokenType; a token whose lexeme is one of
\* the 16 keywords has the type of the keyword, and a token with another
\* lexeme of letters, digits and underscores that starts with a letter or
\* underscore has the type IDENTIFIER
C15_KeywordOrIdentifier ==
    \A i \in 1..Len(scanner.tokens) :
        LET token == scanner.tokens[i]
        IN  /\ token.type \in TokenType
            /\ (token.type \notin {"STRING", "NUMBER", "EOF"} /\ IsWord(token.lexeme)) =>
                   token.type = IF token.lexeme \in DOMAIN keywords
                                THEN keywords[token.lexeme]
                                ELSE "IDENTIFIER"

(***************************************************************************)
(* Parser.                                                                 *)
(***************************************************************************)
\* where #synchronize may leave the cursor of p: at EOF, after a semicolon, or
\* at a token that begins a statement
SynchronizedAt(p, current) ==
    \/ p.tokens[current + 1].type = "EOF"
    \/ current > 0 /\ p.tokens[current].type = "SEMICOLON"
    \/ p.tokens[current + 1].type
          \in {"CLASS", "FUN", "VAR", "FOR", "IF", "WHILE", "PRINT", "RETURN"}

\* the first such place from the token after the one p is at
SynchronizationPoint(p) ==
    LET from == IF p.tokens[p.current + 1].type = "EOF" THEN p.current
                ELSE p.current + 1
    IN  CHOOSE current \in from..(Len(p.tokens) - 1) :
            /\ SynchronizedAt(p, current)
            /\ \A before \in from..(current - 1) : ~SynchronizedAt(p, before)

\* the source has been parsed to the end
ParsedAll(source) == stage \in {"resolve", "end"} /\ scanner.source = source

PrintNumber(n) == PrintStmt(Literal(Num(n)))

\* C16: when a declaration of the program throws ParseError, the turn of the
\* parser's loop adds no statement, sets hadError, and leaves the cursor at
\* the first place, from the token after the one the error was reported at,
\* that is at EOF, after a semicolon or at one of class, fun, var, for, if,
\* while, print, return; a declaration that does not throw is appended; so
\* the declarations from that place on are parsed in order, at top level and
\* in a block (the token at which the error was reported is skipped with the
\* failed declaration, also when it is a keyword)
C16_ErrorRecovery ==
    /\ [][ (stage = "parse" /\ stage' = "parse") =>
             LET try == ParseDeclarationTry(parser)
             IN  IF try.ok
                 THEN /\ statements' = Append(statements, try.node)
                      /\ parser' = try.p
                 ELSE /\ statements' = statements
                      /\ parser'.current = SynchronizationPoint(try.p)
                      /\ parser'.current > parser.current
                      /\ parser'.errors = try.p.errors
                      /\ hadError' ]_vars
    /\ [](ParsedAll(TextRecover) =>
             statements = << ExpressionStmt(Assign("a", Literal(Num(2)))), PrintNumber(3) >>)
    /\ [](ParsedAll(TextRecoverVar) => statements = << PrintNumber(1) >>)
    /\ [](ParsedAll(TextRecoverSkip) => statements = << PrintNumber(3) >>)
    /\ [](ParsedAll(TextRecoverBlock) =>
             statements = << BlockStmt(<< PrintNumber(2) >>), PrintNumber(3) >>)
    /\ [](ParsedAll(TextRecoverKeyword) =>
             statements = << VarStmt("d", Absent), PrintNumber(4) >>)
    /\ [](ParsedAll(TextRecoverEnd) => statements = << PrintNumber(1) >>)
    /\ [](\A source \in {TextRecover, TextRecoverVar, TextRecoverSkip, TextRecoverBlock,
                         TextRecoverKeyword, TextRecoverEnd} :
             ParsedAll(source) => Len(parser.errors) = 1 /\ hadError /\ stage = "end")

\* after the ParseError of `1 + ;` the two declarations that follow it are
\* the statements of the program
C16_Witness ==
    /\ ParsedAll(TextRecover)
    /\ Len(parser.errors) = 1
    /\ Len(statements) = 2
    /\ ParserDone(parser)

\* the parser's result for the expression statement text;
ParseAlone(text) == parse(NewParser(scanTokens(NewScanner(text \o << ";" >>)).tokens))

\* the expression of that statement
ExprOf(text) == ParseAlone(text).statements[1].expr

InvalidTarget ==
    [line |-> 1, where |-> " at '='", message |-> "Invalid assignment target."]

\* C17: for the statement `target = value;` the parser returns the statement
\* of Assign{name, value} when target parses to Variable{name}, of
\* Set{object, name, value} when it parses to Get{object, name}, and otherwise
\* the statement of the target expression itself, after reporting "Invalid
\* assignment target." at the `=`, once, after the reports of the value; in
\* all three cases no ParseError is thrown, the value is consumed and the
\* statement after the assignment follows in the output
C17_AssignmentTargets ==
    /\ \A target \in AssignTargets, value \in AssignValues :
          ParsedAll(AssignmentSource(target, value)) =>
             LET lhs == ExprOf(target)
                 rhs == ExprOf(value)
                 valid == lhs.t \in {"Variable", "Get"}
             IN  /\ statements
                       = << ExpressionStmt(CASE lhs.t = "Variable" -> Assign(lhs.name, rhs)
                                             [] lhs.t = "Get" ->
                                                   Set(lhs.object, lhs.name, rhs)
                                             [] OTHER -> lhs),
                            PrintNumber(9) >>
                 /\ parser.errors
                       = ParseAlone(value).p.errors
                            \o (IF valid THEN << >> ELSE << InvalidTarget >>)
                 /\ hadError = (parser.errors # << >>)
    /\ ParsedAll(AssignmentSource(TextTargetGet, TextValueNumber)) =>
          /\ statements = << ExpressionStmt(Set(Variable("a"), "b", Literal(Num(2)))),
                             PrintNumber(9) >>
          /\ parser.errors = << >>
    /\ ParsedAll(AssignmentSource(TextTargetVariable, TextValueAssign)) =>
          /\ statements = << ExpressionStmt(Assign("a", Assign("b", Literal(Num(3))))),
                             PrintNumber(9) >>
          /\ parser.errors = << >>
    /\ ParsedAll(AssignmentSource(TextTargetBinary, TextValueNumber)) =>
          /\ statements = << ExpressionStmt(Binary(Variable("a"), "PLUS", Variable("b"))),
                             PrintNumber(9) >>
          /\ parser.errors = << InvalidTarget >>
    /\ \A source \in Assignments :
          (stage = "parse" /\ scanner.source = source /\ ~ParserDone(parser)) =>
             ParseDeclarationTry(parser).ok

\* `(a) = 4 = c.d; print 9;` has been parsed: two reports, two statements
C17_Witness ==
    /\ ParsedAll(AssignmentSource(TextTargetGrouping, TextValueInvalid))
    /\ parser.errors = << InvalidTarget, InvalidTarget >>
    /\ statements = << ExpressionStmt(Grouping(Variable("a"))), PrintNumber(9) >>

(***************************************************************************)
(* Resolver.                                                               *)
(***************************************************************************)
\* the source has been parsed without error and resolved
Resolved(source) ==
    /\ stage = "end"
    /\ scanner.source = source
    /\ scanner.errors = << >>
    /\ parser.errors = << >>

\* n reports of message
Times(n, message) == [i \in 1..n |-> message]

OwnInitializer == "Can't read local variable in its own initializer."

\* the resolver after the first k statements of a block that is a statement
\* of the program
InBlockAfter(block, k) == ResolveAll(ScopePush(NewResolver), SubSeq(block.statements, 1, k))

\* C18: the resolver reports "Can't read local variable in its own
\* initializer." once for every read of a variable in the initializer of its
\* own declaration in a block or a function body, and does not report it for
\* such a read at global scope, for the read of a defined variable of the same
\* or of an outer scope, or for the initializer of another variable; after a
\* Var statement of a block is resolved the name is defined in the innermost
\* scope
C18_OwnInitializer ==
    /\ Resolved(TextOwnInit) => resolver.errors = Times(1, OwnInitializer)
    /\ Resolved(TextOwnInitShadow) => resolver.errors = Times(1, OwnInitializer)
    /\ Resolved(TextOwnInitTwice) => resolver.errors = Times(2, OwnInitializer)
    /\ Resolved(TextOwnInitFunction) => resolver.errors = Times(1, OwnInitializer)
    /\ Resolved(TextOwnInitGlobal) => resolver.errors = << >>
    /\ Resolved(TextOwnInitOuter) => resolver.errors = << >>
    /\ Resolved(TextOwnInitOther) => resolver.errors = << >>
    /\ stage = "end" => hadError = (scanner.errors # << >> \/ parser.errors # << >>
                                       \/ resolver.errors # << >>)
    /\ \A source \in {TextOwnInit, TextOwnInitTwice, TextOwnInitOther, TextOwnInitOuter} :
          Resolved(source) =>
             \A k \in 1..Len(statements[1].statements) :
                statements[1].statements[k].t = "Var" =>
                   LET after == InBlockAfter(statements[1], k)
                       name == statements[1].statements[k].name
                   IN  /\ name \in DOMAIN after.scopes[1]
                       /\ after.scopes[1][name] = TRUE

\* `{ var a = a; }` has been resolved with the report
C18_Witness ==
    /\ Resolved(TextOwnInit)
    /\ resolver.errors = << OwnInitializer >>
    /\ hadError
    /\ InBlockAfter(statements[1], 1).scopes = << [a |-> TRUE] >>

Redeclared == "Already a variable with this name in this scope."

\* C19: the resolver reports "Already a variable with this name in this
\* scope." for a variable, a parameter, a function or a class declared in a
\* block or function scope that holds the name already, a parameter and a
\* local of the function body being of one scope; it reports nothing when the
\* name is held by an outer scope only, or when the declarations are global
C19_Redeclaration ==
    /\ Resolved(TextRedeclare) => resolver.errors = << Redeclared >>
    /\ Resolved(TextRedeclareParams) => resolver.errors = << Redeclared >>
    /\ Resolved(TextRedeclareParamLocal) => resolver.errors = << Redeclared >>
    /\ Resolved(TextRedeclareFunction) => resolver.errors = << Redeclared >>
    /\ Resolved(TextRedeclareClass) => resolver.errors = << Redeclared >>
    /\ Resolved(TextRedeclareShadow) => resolver.errors = << >>
    /\ Resolved(TextRedeclareGlobal) => resolver.errors = << >>
    /\ \A source \in {TextOwnInitShadow, TextOwnInitOuter, TextOwnInitOther} :
          Resolved(source) =>
             \A e \in 1..Len(resolver.errors) : resolver.errors[e] # Redeclared

\* `fun f(a, a) { }` has been resolved with the report
C19_Witness ==
    /\ Resolved(TextRedeclareParams)
    /\ resolver.errors = << Redeclared >>
    /\ hadError

ReturnFromInitializer == "Can't return a value from an initializer."

\* C20: for a `return` in the body of a method named init the resolver reports
\* "Can't return a value from an initializer." when the statement has a value
\* other than the literal nil: a number, this, a variable, a binary expression,
\* a call; it reports nothing for `return;` and `return nil;`
C20_InitializerReturn ==
    /\ \A source \in {TextInitReturnNumber, TextInitReturnThis, TextInitReturnVariable,
                      TextInitReturnBinary, TextInitReturnCall} :
          Resolved(source) => resolver.errors = << ReturnFromInitializer >>
    /\ \A source \in {TextInitReturnBare, TextInitReturnNil} :
          Resolved(source) => resolver.errors = << >>


(***************************************************************************)
(* C21..C30                                                                *)
(***************************************************************************)
IxCallArity ==
    Len(ConsoleSources) + CHOOSE i \in DOMAIN ProgramSources : ProgramSources[i] = SrcCallArity
IxCallNotCallable ==
    Len(ConsoleSources) + CHOOSE i \in DOMAIN ProgramSources : ProgramSources[i] = SrcCallNotCallable

NotCallable == "Can only call functions and classes."

\* the RuntimeError with this message is being thrown
Throwing(message) ==
    Running /\ ctl.m = "throw" /\ ctl.x = RuntimeError(message)

\* the global variable name holds value
GlobalIs(name, value) ==
    /\ name \in DOMAIN envs[GlobalsId].values
    /\ envs[GlobalsId].values[name] = value

\* C21: a call evaluates the callee first, then every argument in source
\* order, and only then checks that the callee is callable and that the
\* number of arguments is its arity.  A failed check throws the RuntimeError
\* "Can only call functions and classes." or "Expected N arguments but got
\* M." without entering the callee's body, after the side effects of the
\* arguments have happened; a body is entered only after both checks passed.
C21_CallProtocol ==
    /\ [][ (Running /\ ctl.m = "invoke" /\ ctl'.m = "throw") =>
             /\ ctl'.x = RuntimeError(
                   IF ~IsCallable(ctl.callee) THEN NotCallable
                   ELSE ExpectedArguments(Arity(ctl.callee, funcs, classes), Len(ctl.args)))
             /\ ~IsCallable(ctl.callee) \/ Len(ctl.args) # Arity(ctl.callee, funcs, classes)
             /\ UNCHANGED << envs, funcs, environment, kont, out >> ]_vars
    /\ [][ (Running /\ Len(kont') > Len(kont) /\ kont'[2].f = "call") =>
             /\ ctl.m = "invoke"
             /\ IsCallable(ctl.callee)
             /\ Len(ctl.args) = Arity(ctl.callee, funcs, classes) ]_vars
    /\ []((src = IxCallArity /\ Throwing(ExpectedArguments(1, 2))) =>
             /\ GlobalIs("k", Num(1))
             /\ GlobalIs("n", Num(2)))
    /\ []((src = IxCallArity /\ Running) =>
             /\ ~Throwing(NotCallable)
             /\ ~GlobalIs("n", Num(9))
             /\ CallFrames(kont) = {})
    /\ []((src = IxCallNotCallable /\ Throwing(NotCallable)) =>
             GlobalIs("m", Num(2)))

\* both checks have failed after the arguments were evaluated
C21_Witness ==
    \/ src = IxCallArity /\ Throwing(ExpectedArguments(1, 2)) /\ GlobalIs("n", Num(2))
    \/ src = IxCallNotCallable /\ Throwing(NotCallable) /\ GlobalIs("m", Num(2))

IxInit ==
    Len(ConsoleSources) + CHOOSE i \in DOMAIN ProgramSources : ProgramSources[i] = SrcInit

\* C22: invoking init yields the instance bound as `this`, whether the body
\* falls through or returns early, both through the class call C(...) and
\* directly as instance.init(...).
C22_InitReturnsInstance ==
    /\ [][ (ValueAt("construct") /\ Len(kont') < Len(kont)) =>
             ctl' = Val(Instance(Top.instance)) ]_vars
    /\ []((src = IxInit /\ pc = "ret") =>
             out = << "C instance", "2", "C instance", "C instance" >>)

IxGet ==
    Len(ConsoleSources) + CHOOSE i \in DOMAIN ProgramSources : ProgramSources[i] = SrcGet

\* a property of an Instance is being read
Getting == ValueAt("get") /\ ctl.v.k = "instance"

\* C23: reading property name of instance i gives the field of that name
\* when i has one, also when the class has a method of that name; otherwise
\* the method found along the class chain, as a new Function whose closure
\* is a new environment that holds only `this` = i and encloses the closure
\* of the method; otherwise the RuntimeError "Undefined property 'name'.".
\* Two reads of i.m give two different functions.
C23_InstanceGet ==
    /\ [][ Getting =>
             LET i == ctl.v.id
                 name == Top.name
                 method == findMethod(classes, instances[i].class, name)
                 env == Len(envs) + 1
             IN  IF name \in DOMAIN instances[i].fields
                 THEN /\ ctl' = Val(instances[i].fields[name])
                      /\ UNCHANGED << envs, funcs >>
                 ELSE IF method # Undefined
                 THEN /\ ctl' = Val(Fn(Len(funcs) + 1))
                      /\ funcs' = Append(funcs, [declaration |-> funcs[method].declaration,
                                                 closure |-> env])
                      /\ Len(envs') = env
                      /\ \A e \in 1..Len(envs) : envs'[e] = envs[e]
                      /\ envs'[env].enclosing = funcs[method].closure
                      /\ envs'[env].values = [n \in {"this"} |-> Instance(i)]
                 ELSE /\ ctl' = Throw(RuntimeError("Undefined property '" \o name \o "'."))
                      /\ UNCHANGED << envs, funcs >> ]_vars
    /\ []((src = IxGet /\ pc = "ret") =>
             /\ out = << "false", "1", "5" >>
             /\ hadRuntimeError)

\* the field m of d is read although the class of d has a method m
C23_Witness ==
    /\ src = IxGet
    /\ Getting
    /\ Top.name = "m"
    /\ "m" \in DOMAIN instances[ctl.v.id].fields
    /\ findMethod(classes, instances[ctl.v.id].class, "m") # Undefined
    /\ out = << "false", "1" >>

\* the k-th class above c in the superclass chain, c itself for k = 0;
\* Undefined when the chain is shorter
RECURSIVE Above(_, _)
Above(c, k) ==
    IF k = 0 THEN c
    ELSE IF Above(c, k - 1) = Undefined THEN Undefined
    ELSE classes[Above(c, k - 1)].superclass

\* the distances from c of the classes of its chain that have a method name
Having(c, name) ==
    {k \in 0..Len(classes) :
        Above(c, k) # Undefined /\ name \in DOMAIN classes[Above(c, k)].methods}

\* the method name of the nearest class of the chain of c that has one
Nearest(c, name) ==
    IF Having(c, name) = {} THEN Undefined
    ELSE LET k == CHOOSE k \in Having(c, name) : \A j \in Having(c, name) : k <= j
         IN  classes[Above(c, k)].methods[name]

\* C24: findMethod(name) returns the method of the nearest class of the
\* superclass chain that declares name (a subclass overrides its
\* superclass) and nothing when no class of the chain declares it; arity is
\* the arity of the init found in this way, and 0 when there is none.
C24_FindMethod ==
    (kont # << >> /\ ctl.m = "returned") =>
        LET c == Top.class
            init == Nearest(c, "init")
        IN  /\ Top.f = "findMethod" => ctl.value = Nearest(c, Top.name)
            /\ Top.f = "arity" =>
                 ctl.value = IF init = Undefined THEN 0
                             ELSE Len(funcs[init].declaration.params)

\* a class two above declares init with a parameter, the class between
\* overrides it without parameters, and the lowest class is asked
C24_Witness ==
    /\ kont # << >> /\ ctl.m = "returned"
    /\ Top.f = "arity"
    /\ Len(classes) = MaxClasses
    /\ Top.class = MaxClasses
    /\ Having(Top.class, "init") = {1, 2}
    /\ Len(funcs[Nearest(Above(Top.class, 2), "init")].declaration.params) = 1
    /\ ctl.value = 0

RECURSIVE UsesIn(_, _), UsesAll(_, _)
\* the number of Variable, Assign and This nodes for name among nodes
UsesAll(nodes, name) ==
    IF nodes = << >> THEN 0
    ELSE UsesIn(Head(nodes), name) + UsesAll(Tail(nodes), name)

\* the number of Variable, Assign and This nodes for name in node
UsesIn(node, name) ==
    CASE node.t = "Block" -> UsesAll(node.statements, name)
      [] node.t = "Class" -> UsesAll(node.methods, name)
      [] node.t = "Function" -> UsesAll(node.body, name)
      [] node.t \in {"Expression", "Print", "Grouping", "Unary"} -> UsesIn(node.expr, name)
      [] node.t = "If" ->
            UsesAll(<< node.condition, node.thenBranch, node.elseBranch >>, name)
      [] node.t = "Return" -> UsesIn(node.value, name)
      [] node.t = "Var" -> UsesIn(node.initializer, name)
      [] node.t = "While" -> UsesAll(<< node.condition, node.body >>, name)
      [] node.t = "Assign" ->
            (IF node.name = name THEN 1 ELSE 0) + UsesIn(node.value, name)
      [] node.t \in {"Binary", "Logical"} -> UsesAll(<< node.left, node.right >>, name)
      [] node.t = "Call" -> UsesIn(node.callee, name) + UsesAll(node.args, name)
      [] node.t = "Get" -> UsesIn(node.object, name)
      [] node.t = "Set" -> UsesAll(<< node.object, node.value >>, name)
      [] node.t = "This" -> IF name = "this" THEN 1 ELSE 0
      [] node.t = "Variable" -> IF node.name = name THEN 1 ELSE 0
      [] OTHER -> 0

\* the depths the resolver gave to the nodes for name of this run's statements
DepthsOf(name) ==
    LET resolved == ResolveAll(NewResolver, statements).resolved
    IN  [i \in {j \in DOMAIN resolved : resolved[j][1] = name} |-> resolved[i][2]]

RECURSIVE Ancestor(_, _, _)
\* Environment.#ancestor(depth), NoEnv for undefined
Ancestor(heap, env, depth) ==
    IF depth = 0 THEN env
    ELSE IF heap[env].enclosing = NoEnv THEN NoEnv
    ELSE Ancestor(heap, heap[env].enclosing, depth - 1)

\* the names the evaluator is looking up or assigning in this state
LookedUp ==
    IF AtEval("Variable") THEN {ctl.e.name}
    ELSE IF AtEval("This") THEN {"this"}
    ELSE IF ValueAt("assign") THEN {Top.name}
    ELSE {}

\* every node for name has the depth d
AllAtDepth(name, d) ==
    LET depths == DepthsOf(name)
    IN  /\ Cardinality(DOMAIN depths) = UsesAll(statements, name)
        /\ DOMAIN depths # {}
        /\ \A i \in DOMAIN depths : depths[i] = d

\* when the evaluator reaches a node with depth d, the environment d hops
\* from the current one exists and holds the name
DepthInRange ==
    \A name \in LookedUp : \A d \in 0..Len(envs) :
        AllAtDepth(name, d) =>
            /\ Ancestor(envs, environment, d) # NoEnv
            /\ name \in DOMAIN envs[Ancestor(envs, environment, d)].values

\* a node without depth is read from and assigned in globals
NoDepthInGlobals ==
    \A name \in LookedUp :
        DOMAIN DepthsOf(name) = {} =>
            EnvHolder(envs, environment, name) \in {GlobalsId, NoEnv}

\* C25: when the evaluator reaches a Variable, Assign or This node to which
\* the resolver gave depth d, the environment d hops from the current
\* environment exists and is the one in which the name was defined; a node
\* whose name is in no resolver scope has no depth and is looked up in
\* globals.
C25_DepthAgreement == DepthInRange /\ NoDepthInGlobals

\* the index in Sources of the for loop ForCases[k]
IxFor(k) == Len(ConsoleSources) + Len(ProgramSources) + k

\* what scanTokens and parse make of the text of the for loop ForCases[k]
ForParsed(k) ==
    parse(NewParser(scanTokens(NewScanner(
        ForText(ForInitializers[ForCases[k][1]], ForConditions[ForCases[k][2]],
                ForIncrements[ForCases[k][3]]))).tokens))

\* the statement the claim gives for `for (I; C; U) B`, each clause as the
\* parser returns it alone, << >> a missing clause
Desugared(I, C, U, B) ==
    LET body == IF U = << >> THEN B
                ELSE BlockStmt(<< B, ExpressionStmt(ExprOf(U)) >>)
        loop == WhileStmt(IF C = << >> THEN Literal(Bool(TRUE)) ELSE ExprOf(C), body)
    IN  IF I = << >> THEN loop
        ELSE BlockStmt(<< ParseAlone(I).statements[1], loop >>)

\* what running I once and then repeating C, B, U prints for the body
\* { print a; a = a + 1; if (a > 2) a(); }: with the condition a < 2 the loop
\* ends, without it the call of a number ends the run
ForOutput(c, u) ==
    IF c = 2 THEN (IF u = 2 THEN << "0" >> ELSE << "0", "1" >>)
    ELSE (IF u = 2 THEN << "0", "2" >> ELSE << "0", "1", "2" >>)

\* C26: the parser returns for `for (I; C; U) B` the statement
\* Block[I, While(C, Block[B, Expression(U)])], with Literal(true) for a
\* missing C, the body B alone for a missing U and the While alone for a
\* missing I; executing it runs I once and then repeats C, B, U in that
\* order.
C26_ForDesugaring ==
    \A k \in {j \in DOMAIN ForCases : src = IxFor(j)} :
        LET i == ForCases[k][1]
            c == ForCases[k][2]
            u == ForCases[k][3]
        IN  /\ pc = "syntaxGate" =>
                 /\ ForParsed(k).p.errors = << >>
                 /\ statements = ForParsed(k).statements
                 /\ statements[2] = Desugared(ForInitializers[i], ForConditions[c],
                                              ForIncrements[u],
                                              ParseAlone(TextForBody).statements[1])
            /\ pc = "ret" =>
                 /\ out = ForOutput(c, u)
                 /\ hadRuntimeError = (c = 1)

\* the loop with all three clauses has run
C26_Witness ==
    /\ src = IxFor(Len(ForCases))
    /\ pc = "ret"
    /\ statements[2].t = "Block"
    /\ statements[2].statements[2].body.t = "Block"
    /\ out = << "0" >>

IxAssign ==
    Len(ConsoleSources) + CHOOSE i \in DOMAIN ProgramSources : ProgramSources[i] = SrcAssign

\* the distances from the current environment of the environments of its
\* chain that hold name
HoldersOf(name) ==
    {d \in 0..Len(envs) :
        /\ Ancestor(envs, environment, d) # NoEnv
        /\ name \in DOMAIN envs[Ancestor(envs, environment, d)].values}

\* the nearest of them
NearestHolder(name) ==
    Ancestor(envs, environment,
             CHOOSE d \in HoldersOf(name) : \A e \in HoldersOf(name) : d <= e)

\* C27: an assignment sets the name in the nearest environment of the chain
\* that holds it and changes nothing else: no other name, no other
\* environment, no new binding; when no environment of the chain holds the
\* name it throws RuntimeError "Undefined variable 'name'." and every
\* environment stays as it was.
C27_AssignFrame ==
    [][ ValueAt("assign") =>
          IF HoldersOf(Top.name) # {}
          THEN LET h == NearestHolder(Top.name)
               IN  /\ ctl' = ctl
                   /\ Len(envs') = Len(envs)
                   /\ \A e \in DOMAIN envs : e # h => envs'[e] = envs[e]
                   /\ envs'[h].enclosing = envs[h].enclosing
                   /\ DOMAIN envs'[h].values = DOMAIN envs[h].values
                   /\ envs'[h].values[Top.name] = ctl.v
                   /\ \A n \in DOMAIN envs[h].values :
                        n # Top.name => envs'[h].values[n] = envs[h].values[n]
          ELSE /\ ctl' = Throw(RuntimeError("Undefined variable '" \o Top.name \o "'."))
               /\ envs' = envs ]_vars

\* x = 3 has set the x of the enclosing block, which shadows the global x,
\* from a block that holds only y
C27_Witness ==
    /\ src = IxAssign
    /\ Running
    /\ out = << "3" >>
    /\ HoldersOf("x") = {1, 2}
    /\ DOMAIN envs[environment].values = {"y"}
    /\ envs[NearestHolder("x")].values["x"] = Num(3)
    /\ envs[GlobalsId].values["x"] = Num(1)

\* a turn of the loop of scanTokens is taken
Scanning == stage = "scan" /\ ~ScannerDone(scanner)

RECURSIVE Turns(_)
\* the number of turns the loop of scanTokens takes from the state sc on
Turns(sc) == IF ScannerDone(sc) THEN 0 ELSE 1 + Turns(ScanNext(sc))

\* C28: every turn of the loop of scanTokens sets start to the former
\* current and moves current forward, with 0 <= start < current <=
\* source.length afterwards; a token it adds has the lexeme
\* source[start..current), which begins where the turn before ended, so the
\* lexemes do not overlap and come in source order; scanTokens ends after at
\* most source.length turns, and from every state of the scan after at most
\* as many turns as characters are left.
C28_ScannerProgress ==
    /\ [][ Scanning =>
             /\ scanner'.current > scanner.current
             /\ scanner'.start = scanner.current
             /\ 0 <= scanner'.start
             /\ scanner'.start < scanner'.current
             /\ scanner'.current <= Len(scanner.source)
             /\ scanner'.source = scanner.source
             /\ Len(scanner'.tokens) <= Len(scanner.tokens) + 1
             /\ \A t \in DOMAIN scanner.tokens : scanner'.tokens[t] = scanner.tokens[t]
             /\ Len(scanner'.tokens) > Len(scanner.tokens) =>
                  scanner'.tokens[Len(scanner'.tokens)].lexeme =
                      Concat(SubSeq(scanner.source, scanner.current + 1,
                                    scanner'.current)) ]_vars
    /\ [](stage = "scan" =>
             /\ scanner.current <= Len(scanner.source)
             /\ Turns(scanner) <= Len(scanner.source) - scanner.current)

\* the second token of a source of two one-character lexemes has been
\* added: its lexeme begins after the first
C28_Witness ==
    /\ stage = "scan"
    /\ Len(scanner.source) > 1
    /\ Len(scanner.tokens) = 2
    /\ scanner.tokens[1].lexeme = scanner.source[1]
    /\ scanner.tokens[2].lexeme = scanner.source[2]
    /\ scanner.start = 1
    /\ scanner.current = 2

(***************************************************************************)
(* Parser progress.                                                        *)
(***************************************************************************)
\* the index of the EOF token of p
EOFAt(p) == Len(p.tokens) - 1
\* p with the cursor at the token c
ParserAt(p, c) == [p EXCEPT !.current = c]
\* tokens end with an EOF token and hold no other
EndsWithOneEOF(tokens) ==
    /\ Len(tokens) > 0
    /\ \A t \in DOMAIN tokens : (tokens[t].type = "EOF") <=> (t = Len(tokens))

RECURSIVE ParseTurns(_)
\* the number of turns the loop of parse takes from p on
ParseTurns(p) == IF ParserDone(p) THEN 0 ELSE 1 + ParseTurns(ParseDeclaration(p).p)

\* #declaration, called at any token but EOF (the loops of parse and #block
\* call it at no other), returns with the cursor further on and not past EOF;
\* the tokens are taken from the last to the first
DeclarationsConsume(p) ==
    \A back \in 0..(EOFAt(p) - 1) :
        LET c == EOFAt(p) - 1 - back
            r == ParseDeclaration(ParserAt(p, c))
        IN  /\ r.ok
            /\ r.p.current > c
            /\ r.p.current <= EOFAt(p)
            /\ r.p.tokens = p.tokens

\* whenever #declaration catches a ParseError, #synchronize moves the cursor
SynchronizeAdvances(p) ==
    \A c \in 0..(EOFAt(p) - 1) :
        LET r == ParseDeclarationTry(ParserAt(p, c))
        IN  ~r.ok => Synchronize(r.p).current > r.p.current

\* whenever #declaration catches a ParseError thrown before EOF, #synchronize
\* moves the cursor; a ParseError thrown at EOF leaves the cursor there, and
\* the declaration has consumed a token before it threw
SynchronizeAdvancesBeforeEOF(p) ==
    \A c \in 0..(EOFAt(p) - 1) :
        LET r == ParseDeclarationTry(ParserAt(p, c))
        IN  ~r.ok =>
              /\ r.p.current <= EOFAt(p)
              /\ IF ParserDone(r.p)
                 THEN Synchronize(r.p).current = r.p.current /\ r.p.current > c
                 ELSE /\ Synchronize(r.p).current > r.p.current
                      /\ Synchronize(r.p).current <= EOFAt(p)

\* what the claim and its amended form share: the tokens end with one EOF,
\* the cursor is not past it, every #declaration consumes a token
ParserWithinTokens ==
    /\ EndsWithOneEOF(parser.tokens)
    /\ parser.current >= 0
    /\ parser.current <= EOFAt(parser)
    /\ scanner.tokens = parser.tokens

\* C29 as stated: parse ends, the cursor never passes EOF, every #declaration
\* of the loops of parse and #block consumes a token, and #synchronize moves
\* the cursor whenever a ParseError is caught.
C29_SynchronizeAlwaysAdvances ==
    stage # "scan" =>
        /\ ParserWithinTokens
        /\ stage = "parse" =>
             /\ DeclarationsConsume(parser)
             /\ SynchronizeAdvances(parser)
             /\ ParseTurns(parser) <= EOFAt(parser) - parser.current

\* C29 amended: parse ends after at most as many turns as tokens are left
\* before EOF, the cursor never passes EOF, every #declaration of the loops of
\* parse and #block consumes a token; #synchronize moves the cursor when the
\* ParseError was thrown before EOF, and when it was thrown at EOF the cursor
\* stays and the declaration has consumed a token before the throw.
C29_ParserProgress ==
    stage # "scan" =>
        /\ ParserWithinTokens
        /\ stage = "parse" =>
             /\ DeclarationsConsume(parser)
             /\ SynchronizeAdvancesBeforeEOF(parser)
             /\ ParseTurns(parser) <= EOFAt(parser) - parser.current

\* `print 1; 2 +` has been parsed: the ParseError of `2 +` was thrown at EOF
\* and parse has ended there
C29_Witness ==
    /\ ParsedAll(TextRecoverEnd)
    /\ parser.current = EOFAt(parser)
    /\ parser.current = 5
    /\ Len(parser.errors) = 1
    /\ parser.errors[1].where = " at end"
    /\ statements = << PrintNumber(1) >>

(***************************************************************************)
(* Resolver context.                                                       *)
(***************************************************************************)
\* the children a visit method of the resolver resolves
Children(node) ==
    LET present == SelectSeq(
            CASE node.t = "Block" -> node.statements
              [] node.t = "Class" -> node.methods
              [] node.t = "Function" -> node.body
              [] node.t = "If" -> << node.condition, node.thenBranch, node.elseBranch >>
              [] node.t = "Var" -> << node.initializer >>
              [] node.t = "While" -> << node.condition, node.body >>
              [] node.t = "Return" -> << node.value >>
              [] node.t = "Assign" -> << node.value >>
              [] node.t \in {"Binary", "Logical"} -> << node.left, node.right >>
              [] node.t = "Call" -> << node.callee >> \o node.args
              [] node.t = "Get" -> << node.object >>
              [] node.t = "Set" -> << node.value, node.object >>
              [] node.t \in {"Expression", "Print", "Grouping", "Unary"} -> << node.expr >>
              [] OTHER -> << >>,
            LAMBDA child : child # Absent)
    IN  present

RECURSIVE Subnodes(_)
\* the nodes of a sequence of trees
Subnodes(nodes) ==
    IF nodes = << >> THEN {}
    ELSE {Head(nodes)} \cup Subnodes(Children(Head(nodes))) \cup Subnodes(Tail(nodes))

\* resolver contexts a visit may begin in: at top level, in a scope, in a
\* scope that holds a declared name; in any kind of function, in or out of a
\* class
Contexts ==
    {[NewResolver EXCEPT !.scopes = scopes, !.currentFunction = function,
                         !.currentClass = class] :
        scopes \in {<< >>, << << >> >>, << << >>, MapSet(<< >>, "a", FALSE) >>},
        function \in {"NONE", "FUNCTION", "INITIALIZER", "METHOD"},
        class \in {"NONE", "CLASS"}}

\* the visit of node that begins in st ends with as many scopes, and with the
\* currentFunction and currentClass it began with
Balanced(st, node) ==
    LET after == ResolveNode(st, node)
    IN  /\ Len(after.scopes) = Len(st.scopes)
        /\ after.currentFunction = st.currentFunction
        /\ after.currentClass = st.currentClass

\* C30: the visit of every statement and expression of a parsed program, begun
\* in any context, ends with the scope stack as long as it was and with the
\* currentFunction and currentClass it began with, whether or not it reported
\* errors; after Resolver.resolve of the whole program the stack is empty and
\* both are NONE.
C30_ResolverBalanced ==
    /\ stage = "end" =>
         /\ resolver.scopes = << >>
         /\ resolver.currentFunction = "NONE"
         /\ resolver.currentClass = "NONE"
    /\ stage \in {"resolve", "end"} =>
         \A node \in Subnodes(statements) : \A st \in Contexts : Balanced(st, node)

\* class A { init() { return 1; } } has been resolved: the error was reported
\* inside a method, and the resolver is back at top level
C30_Witness ==
    /\ Resolved(TextInitReturnNumber)
    /\ resolver.errors = << "Can't return a value from an initializer." >>
    /\ resolver.scopes = << >>
    /\ resolver.currentFunction = "NONE"
    /\ resolver.currentClass = "NONE"
    /\ statements[1].t = "Class"
=============================================================================
